---- MODULE Spec2Model ----
(***************************************************************************)
(* Stellar enrichment of SWIFT's EAGLE star particles: the lifetime        *)
(* models (dying_mass_msun, lifetime_in_Gyr), the yield-table metallicity  *)
(* lookup (determine_bin_yield), the three enrichment channels             *)
(* (evolve_SNIa, evolve_SNII, evolve_AGB) and the driver                   *)
(* (compute_stellar_evolution, stars_evolve_spart).                        *)
(*                                                                         *)
(* Numbers.  The code computes in float/double.  The model computes in     *)
(* fixed point: a real x is carried as the integer round(x * ONE), ONE =   *)
(* 10^4, and every product or quotient is rounded to the nearest unit.     *)
(* Ages and lifetimes are carried in units of 10^-7 Gyr (AGE units) so     *)
(* that the code's age thresholds keep their digits.  log10, exp, pow and  *)
(* sqrt of libm are computed by series on these integers.                  *)
(***************************************************************************)
EXTENDS Integers, Sequences, FiniteSets, TLC

(***************************************************************************)
(* Fixed-point arithmetic                                                  *)
(***************************************************************************)
ONE == 100 * 100

\* Units of age per Gyr: ages are integers counting 10^-7 Gyr.
AGE == 1000 * ONE

Abs(a) == IF a < 0 THEN -a ELSE a

Min(a, b) == IF a < b THEN a ELSE b

Max(a, b) == IF a > b THEN a ELSE b

RECURSIVE Pow10Int(_)
Pow10Int(k) == IF k <= 0 THEN 1 ELSE 10 * Pow10Int(k - 1)

\* a / b rounded to the nearest integer, b > 0.
RDiv(a, b) == (a + b \div 2) \div b

\* Fixed-point product a * b, |b| <= 20 in value (the first factor is split so that
\* no intermediate product leaves 32 bits).
Mul(a, b) == (a \div ONE) * b + RDiv((a % ONE) * b, ONE)

\* The first k decimals of r / b, 0 <= r < b, the last one rounded.
RECURSIVE Decimals(_, _, _)
Decimals(r, b, k) ==
  IF k = 0 THEN IF 2 * r >= b THEN 1 ELSE 0
  ELSE ((10 * r) \div b) * Pow10Int(k - 1) + Decimals((10 * r) % b, b, k - 1)

\* Fixed-point quotient a / b, b > 0 (digit by digit, so that no
\* intermediate product leaves 32 bits).
DivPos(a, b) == (a \div b) * ONE + Decimals(a % b, b, 4)

\* Fixed-point quotient a / b, b # 0.
Div(a, b) == IF b < 0 THEN DivPos(-a, -b) ELSE DivPos(a, b)

\* ln(10), 10^(1/2) and 10^(1/4) in fixed point.
LN10 == 23026 + 0

SQRT10 == 31623 + 0

QRT10 == 17783 + 0

\* atanh series z + z^3/3 + z^5/5 + ... from the term of odd order k on;
\* zk = z^k.
RECURSIVE AtanhSeries(_, _, _)
AtanhSeries(zk, z2, k) ==
  IF k > 15 \/ zk = 0 THEN 0
  ELSE RDiv(zk, k) + AtanhSeries(Mul(zk, z2), z2, k + 2)

\* log10 of a mantissa m in [1, 10^(1/4)) (fixed point).
Log10Small(m) ==
  LET z == Div(m - ONE, m + ONE)
  IN  Div(2 * AtanhSeries(z, Mul(z, z), 1), LN10)

\* log10 of a mantissa m in [1, 10) (fixed point).
Log10Mant(m) ==
  LET m1 == IF m >= SQRT10 THEN Div(m, SQRT10) ELSE m
      m2 == IF m1 >= QRT10 THEN Div(m1, QRT10) ELSE m1
  IN  (IF m >= SQRT10 THEN ONE \div 2 ELSE 0)
      + (IF m1 >= QRT10 THEN ONE \div 4 ELSE 0) + Log10Small(m2)

\* Number of decimal digits of n >= 1, minus one.
RECURSIVE Decade(_)
Decade(n) == IF n < 10 THEN 0 ELSE 1 + Decade(n \div 10)

\* log10(n / unit) in fixed point, for integers n >= 1 and unit = 10^u.
Log10Of(n, u) ==
  LET d == Decade(n)
      m == IF d >= 4 THEN RDiv(n, Pow10Int(d - 4)) ELSE n * Pow10Int(4 - d)
  IN  (d - u) * ONE + Log10Mant(m)

\* exp series 1 + y + y^2/2! + ... from the term t of order k on.
RECURSIVE ExpSeries(_, _, _)
ExpSeries(t, y, k) ==
  IF k > 24 \/ t = 0 THEN 0
  ELSE t + ExpSeries(RDiv(t * y, k * ONE), y, k + 1)

\* 10^(x / ONE) * 10^u as an integer: the fixed-point power of ten in units
\* of 10^-u.
Pow10Of(x, u) ==
  LET d == x \div ONE
      f == x - d * ONE
      m == ExpSeries(ONE, Mul(f, LN10), 1)
      e == d + u - 4
  IN  IF e >= 0 THEN m * Pow10Int(e) ELSE RDiv(m, Pow10Int(-e))

\* Integer square root by Newton's iteration from the guess g.
RECURSIVE NewtonSqrt(_, _)
NewtonSqrt(n, g) ==
  LET h == (g + n \div g) \div 2
  IN  IF h >= g THEN g ELSE NewtonSqrt(n, h)

\* sqrt of a fixed-point number a >= 0.
Sqrt(a) == IF a <= 0 THEN 0 ELSE NewtonSqrt(a * ONE, a * ONE)


(***************************************************************************)
(* Constants of the enrichment model                                       *)
(***************************************************************************)
\* log10(6), log10(100), log10(8) and the largest progenitor mass.
log10_SNII_min_mass_msun == 7782

log10_SNII_max_mass_msun == 20000

log10_SNIa_max_mass_msun == 9031

imf_max_mass_msun == 1000000

(***************************************************************************)
(* The lifetime table (struct lifetime_table).  The code loads 30 masses   *)
(* and 6 metallicities from a file; the model keeps a smaller table of the *)
(* same shape: masses and metallicities strictly increasing, log10 of the  *)
(* dying time (yr) decreasing with mass and varying with metallicity.      *)
(***************************************************************************)
lifetimes_n_mass == 5

lifetimes_n_z == 3

RECURSIVE Pow2(_)
Pow2(k) == IF k <= 0 THEN 1 ELSE 2 * Pow2(k - 1)

\* 0.5, 2, 8, 32, 128 solar masses.
lifetimes_mass(i) == (ONE \div 2) * Pow2(2 * i)

\* 0.005, 0.01, 0.02 metal mass fractions.
lifetimes_metallicity(k) == 50 * Pow2(k)

\* log10(dying time / yr): 11.0, 9.3, 8.0, 7.1, 6.6 at the lowest metallicity.
lifetimes_dyingtime(k, i) ==
  110000 - 19000 * i + 2000 * i * i + k * (500 + 300 * i)

\* interpol_1d on the lifetime mass axis.
interpol_1d_mass(i, dx) ==
  Mul(lifetimes_mass(i), ONE - dx) + Mul(lifetimes_mass(i + 1), dx)

\* interpol_2d on the dying-time grid.
interpol_2d_dyingtime(i, j, dx, dy) ==
  Mul(Mul(lifetimes_dyingtime(i, j), ONE - dx), ONE - dy)
  + Mul(Mul(lifetimes_dyingtime(i, j + 1), ONE - dx), dy)
  + Mul(Mul(lifetimes_dyingtime(i + 1, j), dx), ONE - dy)
  + Mul(Mul(lifetimes_dyingtime(i + 1, j + 1), dx), dy)

\* pow(b, num/den) for b in AGE units, as a fixed-point number.
PowAge(b, num, den) == Pow10Of(RDiv(Log10Of(b, 7) * num, den), 4)

\* The metallicity bracket both lifetime functions compute: index and
\* fraction.
RECURSIVE MetalScan(_, _)
MetalScan(k, metallicity) ==
  IF k < lifetimes_n_z - 1 /\ ~(lifetimes_metallicity(k + 1) > metallicity)
  THEN MetalScan(k + 1, metallicity) ELSE k

MetalBracket(metallicity) ==
  IF metallicity <= lifetimes_metallicity(0)
  THEN [index |-> 0, d |-> 0]
  ELSE IF metallicity >= lifetimes_metallicity(lifetimes_n_z - 1)
  THEN [index |-> lifetimes_n_z - 2, d |-> ONE]
  ELSE LET k == MetalScan(0, metallicity)
       IN  [index |-> k,
            d |-> Div(metallicity - lifetimes_metallicity(k),
                      lifetimes_metallicity(k + 1) - lifetimes_metallicity(k))]

\* An infinite float (log10 of zero, a quotient by zero) is carried as a
\* value below every sentinel.
NEG_INF == -1000 * ONE

\* The lifetime table as dying_mass_msun reads it: n_mass, the rows of
\* dyingtime, and the value a read beside a row would find.
lifetimes ==
  [n_mass |-> lifetimes_n_mass,
   dyingtime |-> [k \in 0 .. lifetimes_n_z - 1 |->
                    [i \in 0 .. lifetimes_n_mass - 1 |->
                       lifetimes_dyingtime(k, i)]],
   beyond |-> 0]

\* lt.dyingtime[row][i]; an index outside the row reads what lies beside it.
ReadTime(lt, row, i) ==
  IF i >= 0 /\ i <= lt.n_mass - 1 THEN lt.dyingtime[row][i] ELSE lt.beyond

\* Variant: ages at or beyond the first entry of a row are not clamped.
TimeClampNoUpper(lt, row, log_age_yr) ==
  IF log_age_yr <= ReadTime(lt, row, lt.n_mass - 1)
  THEN [index |-> lt.n_mass - 2, d |-> ONE]
  ELSE [index |-> -1, d |-> 0]

\* The boundary clamps of one metallicity row (part_001 273-288).
TimeClamp(lt, row, log_age_yr) ==
  IF log_age_yr >= ReadTime(lt, row, 0)
  THEN [index |-> 0, d |-> 0]
  ELSE IF log_age_yr <= ReadTime(lt, row, lt.n_mass - 1)
  THEN [index |-> lt.n_mass - 2, d |-> ONE]
  ELSE [index |-> -1, d |-> 0]

\* The time fraction the scan assigns at index i of a row; a division by
\* zero gives no number between 0 and 1.
TimeFrac(lt, row, i, log_age_yr) ==
  IF ReadTime(lt, row, i + 1) = ReadTime(lt, row, i) THEN NEG_INF
  ELSE Div(log_age_yr - ReadTime(lt, row, i),
           ReadTime(lt, row, i + 1) - ReadTime(lt, row, i))

\* One row at index j of the scan: the bracket is set when it is not yet
\* and the entry is at or above the age.
TimeTest(lt, row, j, t, log_age_yr) ==
  IF t.index = -1 /\ ReadTime(lt, row, j) >= log_age_yr
  THEN [index |-> j, d |-> TimeFrac(lt, row, j, log_age_yr)]
  ELSE t

\* The backward scan `while (i >= 0 && (index_time1 == -1 || index_time2 ==
\* -1))`: i is decremented, then both rows are tested at i.  oob records a
\* read of dyingtime outside 0..n_mass-1.
RECURSIVE TimeScan(_, _, _, _, _, _, _)
TimeScan(lt, i, t1, t2, row, log_age_yr, oob) ==
  IF i >= 0 /\ (t1.index = -1 \/ t2.index = -1)
  THEN LET j == i - 1
           n1 == TimeTest(lt, row, j, t1, log_age_yr)
           n2 == TimeTest(lt, row + 1, j, t2, log_age_yr)
           out == \/ j < 0 \/ j > lt.n_mass - 1
                  \/ (n1 # t1 \/ n2 # t2) /\ j + 1 > lt.n_mass - 1
       IN  TimeScan(lt, j, n1, n2, row, log_age_yr, oob \/ out)
  ELSE [t1 |-> t1, t2 |-> t2, oob |-> oob]

\* The two time brackets of case 2: the clamps, then the scan.
TimeBrackets(lt, index_Z, log_age_yr) ==
  TimeScan(lt, lt.n_mass,
           TimeClamp(lt, index_Z, log_age_yr),
           TimeClamp(lt, index_Z + 1, log_age_yr),
           index_Z, log_age_yr, FALSE)

\* mass1, mass2 and their interpolation in metallicity.
DyingMassInterpol(mb, sc) ==
  [mass |-> Mul(interpol_1d_mass(sc.t1.index, sc.t1.d), ONE - mb.d)
            + Mul(interpol_1d_mass(sc.t2.index, sc.t2.d), mb.d),
   metal |-> mb, t1 |-> sc.t1, t2 |-> sc.t2, oob |-> sc.oob]

DyingMassBracketed(lt, log_age_yr, mb) ==
  DyingMassInterpol(mb, TimeBrackets(lt, mb.index, log_age_yr))

\* log_age_yr = log10(age_Gyr * 1.e9).
LogAgeYr(age_Gyr) == Log10Of(age_Gyr, 7) + 9 * ONE

\* Case 2 of dying_mass_msun (Portinari et al. 1998), age > 0.
DyingMassTable(age_Gyr, metallicity) ==
  DyingMassBracketed(lifetimes, LogAgeYr(age_Gyr), MetalBracket(metallicity))

\* Case 0 (Padovani & Matteucci 1993).
DyingMassPM93(age_Gyr) ==
  IF age_Gyr > 397653
  THEN LET u == 13380 - Mul(9 * ONE + Log10Of(age_Gyr, 7), 1116)
       IN  Pow10Of(77640 - Div(17900 - Mul(u, u), 2232), 4)
  ELSE IF age_Gyr > 30000
  THEN PowAge(RDiv((age_Gyr - 30000) * 10, 12), -100, 185)
  ELSE imf_max_mass_msun

\* Case 1 (Maeder & Meynet 1989).
DyingMassMM89(age_Gyr) ==
  LET L == Log10Of(age_Gyr, 7)
  IN  IF age_Gyr >= 84097378 THEN Pow10Of(Div(ONE - L, 6545), 4)
      ELSE IF age_Gyr >= 3520778 THEN Pow10Of(Div(13500 - L, 37000), 4)
      ELSE IF age_Gyr >= 509315 THEN Pow10Of(Div(7700 - L, 25100), 4)
      ELSE IF age_Gyr >= 105291 THEN Pow10Of(Div(1700 - L, 17800), 4)
      ELSE IF age_Gyr >= 37735 THEN Pow10Of(Div(-9400 - L, 8600), 4)
      ELSE IF age_Gyr > 30000
      THEN PowAge(RDiv((age_Gyr - 30000) * 10, 12), -20, 37)
      ELSE imf_max_mass_msun

\* The mass dying_mass_msun computes before the final clamp; -1 stands for
\* the fatal error("stellar lifetimes not defined") of an undefined flag.
DyingMassRaw(age_Gyr, metallicity, flag) ==
  CASE flag = 0 -> DyingMassPM93(age_Gyr)
    [] flag = 1 -> DyingMassMM89(age_Gyr)
    [] flag = 2 -> IF age_Gyr <= 0 THEN imf_max_mass_msun
                   ELSE DyingMassTable(age_Gyr, metallicity).mass
    [] OTHER -> -1

\* Variant: the mass is returned without the final clamp.
DyingMassUnclamped(age_Gyr, metallicity, flag) ==
  DyingMassRaw(age_Gyr, metallicity, flag)

\* dying_mass_msun: solar masses in fixed point; age in AGE units.
dying_mass_msun(age_Gyr, metallicity, flag) ==
  Min(DyingMassRaw(age_Gyr, metallicity, flag), imf_max_mass_msun)

\* The mass bracket of lifetime_in_Gyr's case 2.
RECURSIVE MassScan(_, _)
MassScan(i, mass) ==
  IF i < lifetimes_n_mass - 1 /\ ~(lifetimes_mass(i + 1) > mass)
  THEN MassScan(i + 1, mass) ELSE i

MassBracket(mass) ==
  IF mass <= lifetimes_mass(0)
  THEN [index |-> 0, d |-> 0]
  ELSE IF mass >= lifetimes_mass(lifetimes_n_mass - 1)
  THEN [index |-> lifetimes_n_mass - 2, d |-> ONE]
  ELSE LET i == MassScan(0, mass)
       IN  [index |-> i,
            d |-> Div(mass - lifetimes_mass(i),
                      lifetimes_mass(i + 1) - lifetimes_mass(i))]

\* 1.2 * pow(mass, -1.85) + 0.003, in AGE units.
LifetimeMassive(mass) ==
  RDiv(Pow10Of(Mul(Log10Of(mass, 4), -18500), 7) * 12, 10) + 30000

LifetimePM93(mass) ==
  IF mass <= 6000 THEN 160 * AGE
  ELSE IF mass <= 66000
  THEN Pow10Of(Div(3340 - Sqrt(17900 - Mul(77640 - Log10Of(mass, 4), 2232)),
                   1116), 7)
  ELSE LifetimeMassive(mass)

LifetimeMM89(mass) ==
  LET lm == Log10Of(mass, 4)
  IN  IF mass <= 13000 THEN Pow10Of(Mul(lm, -6545) + ONE, 7)
      ELSE IF mass <= 30000 THEN Pow10Of(Mul(lm, -37000) + 13500, 7)
      ELSE IF mass <= 70000 THEN Pow10Of(Mul(lm, -25100) + 7700, 7)
      ELSE IF mass <= 150000 THEN Pow10Of(Mul(lm, -17800) + 1700, 7)
      ELSE IF mass <= 600000 THEN Pow10Of(Mul(lm, -8600) - 9400, 7)
      ELSE LifetimeMassive(mass)

LifetimeTable(mass, metallicity) ==
  LET ms == MassBracket(mass)
      mb == MetalBracket(metallicity)
  IN  Pow10Of(interpol_2d_dyingtime(mb.index, ms.index, mb.d, ms.d) - 9 * ONE,
              7)

\* lifetime_in_Gyr: AGE units; mass in fixed-point solar masses.
lifetime_in_Gyr(mass, metallicity, flag) ==
  CASE flag = 0 -> LifetimePM93(mass)
    [] flag = 1 -> LifetimeMM89(mass)
    [] flag = 2 -> LifetimeTable(mass, metallicity)
    [] OTHER -> -1

(***************************************************************************)
(* Tracked elements (chemistry_struct.h): H and He first, Fe last.         *)
(***************************************************************************)
chemistry_element_count == 3

chemistry_element_H == 0

chemistry_element_He == 1

chemistry_element_Fe == chemistry_element_count - 1

Elements == 0 .. chemistry_element_count - 1

ZeroElements == [e \in Elements |-> 0]

(***************************************************************************)
(* determine_bin_yield.  The axis is passed explicitly: a sequence of      *)
(* log10 metallicities, axis[k + 1] being metallicity[k], and its length   *)
(* n_z.  The branch `else dz = 0;` of the code assigns the local pointer,  *)
(* not the fraction, so it leaves *dz as the lines above set it.           *)
(***************************************************************************)
\* The metallicity floor sentinel of yield_tables.h.
log_min_metallicity == -20 * ONE

\* log10 of a float that may be zero.
Log10Float(n, u) == IF n <= 0 THEN NEG_INF ELSE Log10Of(n, u)

\* Variant: the scan also steps over a row equal to the query.
RECURSIVE BinScanInclusive(_, _, _, _)
BinScanInclusive(j, log_metallicity, axis, n_z) ==
  IF j < n_z - 1 /\ log_metallicity >= axis[j + 2]
  THEN BinScanInclusive(j + 1, log_metallicity, axis, n_z) ELSE j

\* for (j = 0; j < n_z - 1 && log_metallicity > metallicity[j + 1]; j++);
RECURSIVE BinScan(_, _, _, _)
BinScan(j, log_metallicity, axis, n_z) ==
  IF j < n_z - 1 /\ log_metallicity > axis[j + 2]
  THEN BinScan(j + 1, log_metallicity, axis, n_z) ELSE j

\* Variant: the fraction is left as a difference of log-metallicities.
BinFractionUndivided(dz, deltaz) == dz

\* if (deltaz > 0) *dz = *dz / deltaz; else dz = 0;
BinFraction(dz, deltaz) == IF deltaz > 0 THEN Div(dz, deltaz) ELSE dz

\* Variant: the offset is taken whether or not the query lies on the axis.
BinOffsetUnchecked(log_metallicity, axis, n_z, iz_low) ==
  log_metallicity - axis[iz_low + 1]

\* if (log_metallicity >= metallicity[0] &&
\*     log_metallicity <= metallicity[n_z - 1])
\*   *dz = log_metallicity - metallicity[*iz_low]; else *dz = 0;
BinOffset(log_metallicity, axis, n_z, iz_low) ==
  IF log_metallicity >= axis[1] /\ log_metallicity <= axis[n_z]
  THEN log_metallicity - axis[iz_low + 1] ELSE 0

determine_bin_yield(log_metallicity, axis, n_z) ==
  IF log_metallicity > log_min_metallicity
  THEN LET iz_low == BinScan(0, log_metallicity, axis, n_z)
           iz_high == IF iz_low + 1 >= n_z THEN n_z - 1 ELSE iz_low + 1
           dz == BinOffset(log_metallicity, axis, n_z, iz_low)
           deltaz == axis[iz_high + 1] - axis[iz_low + 1]
       IN  [iz_low |-> iz_low, iz_high |-> iz_high,
            dz |-> BinFraction(dz, deltaz)]
  ELSE [iz_low |-> 0, iz_high |-> 0, dz |-> 0]

(***************************************************************************)
(* Yield tables.  The code reads them from a file and resamples them onto  *)
(* the IMF mass bins (the *_SPH arrays); the model keeps small tables of   *)
(* the same shape.  `loaded` scales the table: 1 for the tables below, 0   *)
(* for an all-zero table.                                                  *)
(***************************************************************************)
SNII_n_z == 5

AGB_n_z == 3

\* log10 metallicity axes of the two tables.
yield_SNII_metallicity == <<-33979, -23979, -20969, -16990, -13010>>

yield_AGB_metallicity == <<-23979, -20969, -17212>>

\* Net yield of element e at metallicity row iz and mass bin imass: hydrogen
\* is consumed (negative), the others are produced.
yield_SPH(chan, iz, e, imass) ==
  IF e = chemistry_element_H THEN -(300 + 40 * iz + 10 * imass)
  ELSE IF chan = "SNII" THEN 100 * e + 30 * iz + 20 * imass
  ELSE 40 * e + 10 * iz + 5 * imass

\* Ejected mass at metallicity row iz and mass bin imass.
yield_ejecta_SPH(chan, iz, imass) ==
  IF chan = "SNII" THEN 5000 + 300 * imass - 100 * iz
  ELSE 2000 + 200 * imass - 50 * iz

\* Total metal mass at metallicity row iz and mass bin imass.
yield_total_metals_SPH(chan, iz, imass) ==
  IF chan = "SNII" THEN 400 + 50 * iz + 30 * imass
  ELSE 100 + 20 * iz + 10 * imass

\* SNIa yields per element and their total.
yield_SNIa_SPH(e) == IF e <= chemistry_element_He THEN 0 ELSE 2000 * e

yield_SNIa_total_metals_SPH == 9000 + 0

(***************************************************************************)
(* The IMF grid and its integrator (imf.h): mass bins equally spaced in    *)
(* log10 mass from 0.1 solar masses up, half a dex apart.                  *)
(***************************************************************************)
N_imf_bins == 7

ImfBins == 0 .. N_imf_bins - 1

imf_dlm == ONE \div 2

imf_mass_bin_log10(i) == -ONE + i * imf_dlm

\* Number of stars per bin times the bin mass, falling with mass.
imf_weight(i) == RDiv(ONE, i + 1)

\* determine_imf_bins: the bins bracketing [log_min_mass, log_max_mass].
RECURSIVE ImfLow(_, _)
ImfLow(i, log_min_mass) ==
  IF i < N_imf_bins - 1 /\ imf_mass_bin_log10(i + 1) <= log_min_mass
  THEN ImfLow(i + 1, log_min_mass) ELSE i

RECURSIVE ImfHigh(_, _)
ImfHigh(i, log_max_mass) ==
  IF i > 0 /\ imf_mass_bin_log10(i - 1) >= log_max_mass
  THEN ImfHigh(i - 1, log_max_mass) ELSE i

determine_imf_bins(log_min_mass, log_max_mass) ==
  [ilow |-> ImfLow(0, log_min_mass),
   ihigh |-> ImfHigh(N_imf_bins - 1, log_max_mass)]

\* The part of the cell [bin i, bin i+1] inside [lo, hi], as a fraction of
\* the cell.
CellFraction(i, lo, hi) ==
  LET a == Max(lo, imf_mass_bin_log10(i))
      b == Min(hi, imf_mass_bin_log10(i + 1))
  IN  IF b > a THEN Div(b - a, imf_dlm) ELSE 0

\* Trapezoidal rule over the cells ilow .. ihigh-1, each weighted by the
\* fraction of it inside the range.
RECURSIVE ImfSum(_, _, _, _, _)
ImfSum(i, ihigh, lo, hi, stellar_yield) ==
  IF i >= ihigh THEN 0
  ELSE Mul(Mul(Mul(stellar_yield[i], imf_weight(i))
               + Mul(stellar_yield[i + 1], imf_weight(i + 1)),
               CellFraction(i, lo, hi)), imf_dlm \div 2)
       + ImfSum(i + 1, ihigh, lo, hi, stellar_yield)

\* integrate_imf(log_min_mass, log_max_mass, 0.0, 2, stellar_yield, stars).
integrate_imf(log_min_mass, log_max_mass, stellar_yield) ==
  LET b == determine_imf_bins(log_min_mass, log_max_mass)
  IN  ImfSum(b.ilow, b.ihigh, log_min_mass, log_max_mass, stellar_yield)

(***************************************************************************)
(* One call of stars_evolve_spart, step by step.  A context c is the       *)
(* shared properties c.stars, the particle c.sp and the locals c.lc of the *)
(* thread running the call; every step maps a context to the next one.    *)
(* The steps are cut where the code reads or writes the scratch buffer     *)
(* stars->stellar_yield.  Ghost locals: calls (channels entered), base     *)
(* (the released accumulators at the channel's entry), scaled (the channel *)
(* whose scaling step ran last).                                           *)
(***************************************************************************)
\* exp(-t / tau), t and tau in AGE units.
ExpNeg(t, tau) ==
  Pow10Of(Div(-Div(RDiv(t, 100), RDiv(tau, 100)), LN10), 4)

\* Variant: the reset also clears the enrichment clock.
ZeroAccumulatorsAndClock(sp) ==
  [sp EXCEPT !.num_snia = 0,
             !.metals_released = ZeroElements,
             !.metal_mass_released = 0,
             !.mass_from_AGB = 0,
             !.metal_mass_fraction_from_AGB = 0,
             !.mass_from_SNII = 0,
             !.metal_mass_fraction_from_SNII = 0,
             !.mass_from_SNIa = 0,
             !.metal_mass_fraction_from_SNIa = 0,
             !.iron_mass_fraction_from_SNIa = 0,
             !.time_since_enrich_Gyr = 0]

\* Variant: the reset forgets the SNII mass accumulator.
ZeroAccumulatorsButSNII(sp) ==
  [sp EXCEPT !.num_snia = 0,
             !.metals_released = ZeroElements,
             !.metal_mass_released = 0,
             !.mass_from_AGB = 0,
             !.metal_mass_fraction_from_AGB = 0,
             !.metal_mass_fraction_from_SNII = 0,
             !.mass_from_SNIa = 0,
             !.metal_mass_fraction_from_SNIa = 0,
             !.iron_mass_fraction_from_SNIa = 0]

ZeroAccumulators(sp) ==
  [sp EXCEPT !.num_snia = 0,
             !.metals_released = ZeroElements,
             !.metal_mass_released = 0,
             !.mass_from_AGB = 0,
             !.metal_mass_fraction_from_AGB = 0,
             !.mass_from_SNII = 0,
             !.metal_mass_fraction_from_SNII = 0,
             !.mass_from_SNIa = 0,
             !.metal_mass_fraction_from_SNIa = 0,
             !.iron_mass_fraction_from_SNIa = 0]

\* stars_evolve_spart up to the call of compute_stellar_evolution.
stars_evolve_spart(c) ==
  [c EXCEPT !.sp = ZeroAccumulators(c.sp), !.lc.pc = "compute"]

\* log10 of the masses dying at age and at age + dt.
DyingRange(sp, dt, flag) ==
  [max |-> Log10Of(dying_mass_msun(sp.age, sp.metal_mass_fraction_total,
                                   flag), 4),
   min |-> Log10Of(dying_mass_msun(sp.age + dt, sp.metal_mass_fraction_total,
                                   flag), 4)]

\* Variant: a zero-width range goes on to the channels.
RangeCheckNoReturn(c, r) ==
  [c EXCEPT !.lc.log10_min_mass = r.min,
            !.lc.log10_max_mass = r.max,
            !.lc.pc = IF r.min > r.max THEN "fatal_range" ELSE "SNIa"]

\* Variant: an inverted range goes on to the channels.
RangeCheckNoError(c, r) ==
  [c EXCEPT !.lc.log10_min_mass = r.min,
            !.lc.log10_max_mass = r.max,
            !.lc.pc = IF r.min = r.max THEN "done" ELSE "SNIa"]

\* The checks of compute_stellar_evolution on the range r.
RangeCheck(c, r) ==
  [c EXCEPT !.lc.log10_min_mass = r.min,
            !.lc.log10_max_mass = r.max,
            !.lc.pc = IF r.min > r.max THEN "fatal_range"
                      ELSE IF r.min = r.max THEN "done"
                      ELSE "SNIa"]

\* compute_stellar_evolution up to the first channel.
compute_stellar_evolution(c) ==
  RangeCheck(c, DyingRange(c.sp, c.lc.dt, c.stars.stellar_lifetime_flag))

\* The events per solar mass of the e-folding delay function.
num_of_SNIa_per_msun(stars, clock, dt_Gyr) ==
  Mul(ExpNeg(clock, stars.SNIa_timescale)
      - ExpNeg(clock + dt_Gyr, stars.SNIa_timescale), stars.SNIa_efficiency)

\* Variant: with the transfer on, the SNIa metal accumulator is left out.
SNIaReleaseMassOnly(stars, sp, num) ==
  IF stars.SNIa_mass_transfer = 1
  THEN [sp EXCEPT
          !.num_snia = num,
          !.metals_released =
             [e \in Elements |-> @[e] + Mul(yield_SNIa_SPH(e), num)],
          !.mass_from_SNIa = @ + Mul(yield_SNIa_total_metals_SPH, num),
          !.metal_mass_released = @ + Mul(yield_SNIa_total_metals_SPH, num),
          !.iron_mass_fraction_from_SNIa =
             @ + Mul(yield_SNIa_SPH(chemistry_element_Fe), num)]
  ELSE [sp EXCEPT !.num_snia = num,
                  !.iron_mass_fraction_from_SNIa = 0,
                  !.metal_mass_fraction_from_SNIa = 0,
                  !.mass_from_SNIa = 0]

\* Variant: the yields are added whatever the transfer toggle says.
SNIaReleaseIgnoresToggle(stars, sp, num) ==
  [sp EXCEPT
     !.num_snia = num,
     !.metals_released =
        [e \in Elements |-> @[e] + Mul(yield_SNIa_SPH(e), num)],
     !.mass_from_SNIa = @ + Mul(yield_SNIa_total_metals_SPH, num),
     !.metal_mass_fraction_from_SNIa =
        @ + Mul(yield_SNIa_total_metals_SPH, num),
     !.metal_mass_released = @ + Mul(yield_SNIa_total_metals_SPH, num),
     !.iron_mass_fraction_from_SNIa =
        @ + Mul(yield_SNIa_SPH(chemistry_element_Fe), num)]

\* The particle after sp->num_snia = num is set and the yields are added.
SNIaRelease(stars, sp, num) ==
  IF stars.SNIa_mass_transfer = 1
  THEN [sp EXCEPT
          !.num_snia = num,
          !.metals_released =
             [e \in Elements |-> @[e] + Mul(yield_SNIa_SPH(e), num)],
          !.mass_from_SNIa = @ + Mul(yield_SNIa_total_metals_SPH, num),
          !.metal_mass_fraction_from_SNIa =
             @ + Mul(yield_SNIa_total_metals_SPH, num),
          !.metal_mass_released = @ + Mul(yield_SNIa_total_metals_SPH, num),
          !.iron_mass_fraction_from_SNIa =
             @ + Mul(yield_SNIa_SPH(chemistry_element_Fe), num)]
  ELSE [sp EXCEPT !.num_snia = num,
                  !.iron_mass_fraction_from_SNIa = 0,
                  !.metal_mass_fraction_from_SNIa = 0,
                  !.mass_from_SNIa = 0]

\* Variant: the rate is evaluated at the clock the particle came with.
SNIaClipKeepsClock(stars, sp, dt, lifetime_Gyr) ==
  SNIaRelease(stars, [sp EXCEPT !.time_since_enrich_Gyr = lifetime_Gyr],
              num_of_SNIa_per_msun(stars, sp.time_since_enrich_Gyr,
                                   sp.time_since_enrich_Gyr + dt
                                   - lifetime_Gyr))

\* The clip of the range at 8 solar masses: the step shrinks and the
\* particle's clock is set to the lifetime of an 8 solar mass star.
SNIaClip(stars, sp, dt, lifetime_Gyr) ==
  SNIaRelease(stars, [sp EXCEPT !.time_since_enrich_Gyr = lifetime_Gyr],
              num_of_SNIa_per_msun(stars, lifetime_Gyr,
                                   sp.time_since_enrich_Gyr + dt
                                   - lifetime_Gyr))

\* The particle after evolve_SNIa has run past its range check.
SNIaParticle(stars, sp, log10_max_mass, dt) ==
  IF log10_max_mass > log10_SNIa_max_mass_msun
  THEN SNIaClip(stars, sp, dt,
                lifetime_in_Gyr(Pow10Of(log10_SNIa_max_mass_msun, 4),
                                sp.metal_mass_fraction_total,
                                stars.stellar_lifetime_flag))
  ELSE SNIaRelease(stars, sp,
                   num_of_SNIa_per_msun(stars, sp.time_since_enrich_Gyr, dt))

evolve_SNIa(c) ==
  LET lc == [c.lc EXCEPT !.pc = "SNII", !.calls = @ \cup {"SNIa"}]
  IN  IF c.lc.log10_min_mass >= log10_SNIa_max_mass_msun
      THEN [c EXCEPT !.lc = lc]
      ELSE [c EXCEPT !.lc = lc,
                     !.sp = SNIaParticle(c.stars, c.sp, c.lc.log10_max_mass,
                                         c.lc.dt)]

\* Variant: a channel integrates over the whole range it is handed.
ChannelRangeUnclipped(chan, log10_min_mass, log10_max_mass) ==
  [lo |-> log10_min_mass, hi |-> log10_max_mass]

\* The integration range of a channel.
ChannelRange(chan, log10_min_mass, log10_max_mass) ==
  IF chan = "SNII"
  THEN [lo |-> Max(log10_min_mass, log10_SNII_min_mass_msun),
        hi |-> Min(log10_max_mass, log10_SNII_max_mass_msun)]
  ELSE [lo |-> log10_min_mass,
        hi |-> Min(log10_max_mass, log10_SNII_min_mass_msun)]

\* The metallicity bracket both channels ask for: determine_bin_yield reads
\* the AGB axis whatever the channel.
ChannelBinYield(sp) ==
  determine_bin_yield(Log10Float(sp.metal_mass_fraction_total, 4),
                      yield_AGB_metallicity, AGB_n_z)

\* Where a channel goes when it returns.
AfterChannel(chan) == IF chan = "SNII" THEN "AGB" ELSE "done"

\* A channel from its entry to the first write of the buffer.
ChannelEnter(chan, c) ==
  LET r == ChannelRange(chan, c.lc.log10_min_mass, c.lc.log10_max_mass)
      b == determine_imf_bins(r.lo, r.hi)
      z == ChannelBinYield(c.sp)
      lc == [c.lc EXCEPT !.calls = @ \cup {chan}, !.scaled = "none"]
  IN  IF chan = "AGB" /\ c.stars.AGB_mass_transfer = 0
      THEN [c EXCEPT !.lc = [lc EXCEPT !.pc = AfterChannel(chan)]]
      ELSE IF r.lo >= r.hi
      THEN [c EXCEPT !.lc = [lc EXCEPT !.pc = AfterChannel(chan)]]
      ELSE [c EXCEPT !.lc =
              [lc EXCEPT !.pc = chan \o "_fill_elem",
                         !.lo = r.lo, !.hi = r.hi,
                         !.ilow = b.ilow, !.ihigh = b.ihigh,
                         !.iz_low = z.iz_low, !.iz_high = z.iz_high,
                         !.dz = z.dz, !.i = 0,
                         !.metals = ZeroElements, !.mass = 0, !.norm0 = 0,
                         !.base = [metal_mass_released |->
                                     c.sp.metal_mass_released,
                                   metals_released |-> c.sp.metals_released]]]

\* The values the three loops over imass store in stellar_yield.
ElemYield(chan, sp, lc, e, imass) ==
  Mul(yield_SPH(chan, lc.iz_low, e, imass)
      + Mul(yield_ejecta_SPH(chan, lc.iz_low, imass),
            sp.metal_mass_fraction[e]), ONE - lc.dz)
  + Mul(yield_SPH(chan, lc.iz_high, e, imass)
        + Mul(yield_ejecta_SPH(chan, lc.iz_high, imass),
              sp.metal_mass_fraction[e]), lc.dz)

TotalYield(chan, sp, lc, imass) ==
  Mul(yield_total_metals_SPH(chan, lc.iz_low, imass)
      + Mul(yield_ejecta_SPH(chan, lc.iz_low, imass),
            sp.metal_mass_fraction_total), ONE - lc.dz)
  + Mul(yield_total_metals_SPH(chan, lc.iz_high, imass)
        + Mul(yield_ejecta_SPH(chan, lc.iz_high, imass),
              sp.metal_mass_fraction_total), lc.dz)

EjectaYield(chan, lc, imass) ==
  Mul(yield_ejecta_SPH(chan, lc.iz_low, imass), ONE - lc.dz)
  + Mul(yield_ejecta_SPH(chan, lc.iz_high, imass), lc.dz)

\* for (imass = ilow; imass < ihigh + 1; imass++) stellar_yield[imass] = ...
FillBuffer(stars, lc, value) ==
  [stars EXCEPT !.stellar_yield =
     [imass \in ImfBins |->
        IF imass >= lc.ilow /\ imass <= lc.ihigh
        THEN stars.loaded * value[imass] ELSE @[imass]]]

ChannelFillElem(chan, c) ==
  LET value == [imass \in ImfBins |->
                 ElemYield(chan, c.sp, c.lc, c.lc.i, imass)]
  IN  [c EXCEPT !.stars = FillBuffer(c.stars, c.lc, value),
                !.lc.pc = chan \o "_int_elem"]

\* metals[i] = integrate_imf(...), and the loop over the elements.
ChannelIntElem(chan, c) ==
  LET v == integrate_imf(c.lc.lo, c.lc.hi, c.stars.stellar_yield)
  IN  [c EXCEPT !.lc.metals[c.lc.i] = v,
                !.lc.i = @ + 1,
                !.lc.pc = IF c.lc.i + 1 < chemistry_element_count
                          THEN chan \o "_fill_elem"
                          ELSE chan \o "_fill_total"]

ChannelFillTotal(chan, c) ==
  LET value == [imass \in ImfBins |-> TotalYield(chan, c.sp, c.lc, imass)]
  IN  [c EXCEPT !.stars = FillBuffer(c.stars, c.lc, value),
                !.lc.pc = chan \o "_int_total"]

\* mass = integrate_imf(...), then the zeroing of negative values.
ChannelIntTotal(chan, c) ==
  LET v == integrate_imf(c.lc.lo, c.lc.hi, c.stars.stellar_yield)
  IN  [c EXCEPT !.lc.mass = Max(v, 0),
                !.lc.metals = [e \in Elements |-> Max(@[e], 0)],
                !.lc.pc = chan \o "_fill_ejecta"]

ChannelFillEjecta(chan, c) ==
  LET value == [imass \in ImfBins |-> EjectaYield(chan, c.lc, imass)]
  IN  [c EXCEPT !.stars = FillBuffer(c.stars, c.lc, value),
                !.lc.pc = chan \o "_normalize"]

\* Variant: the total mass ejected leaves helium out.
Norm1NoHelium(mass, metals) == mass + metals[chemistry_element_H]

\* The total mass ejected.
Norm1(mass, metals) ==
  mass + metals[chemistry_element_H] + metals[chemistry_element_He]

RECURSIVE SumElements(_, _)
SumElements(f, n) == IF n <= 0 THEN 0 ELSE f[n - 1] + SumElements(f, n - 1)

\* Variant: the scaled values replace what the shared totals hold.
AddScaledOverwrites(chan, sp, metals, mass, ratio) ==
  LET m == [e \in Elements |-> Mul(metals[e], ratio)]
      tot == Mul(mass, ratio)
      s1 == [sp EXCEPT !.metals_released = m, !.metal_mass_released = tot]
  IN  IF chan = "SNII"
      THEN [s1 EXCEPT !.mass_from_SNII =
                         @ + SumElements(m, chemistry_element_count),
                      !.metal_mass_fraction_from_SNII = @ + tot]
      ELSE [s1 EXCEPT !.mass_from_AGB =
                         @ + SumElements(m, chemistry_element_count),
                      !.metal_mass_fraction_from_AGB = @ + tot]

\* The particle after the scaled values are added.
AddScaled(chan, sp, metals, mass, ratio) ==
  LET m == [e \in Elements |-> Mul(metals[e], ratio)]
      tot == Mul(mass, ratio)
      s1 == [sp EXCEPT !.metals_released = [e \in Elements |-> @[e] + m[e]],
                       !.metal_mass_released = @ + tot]
  IN  IF chan = "SNII"
      THEN [s1 EXCEPT !.mass_from_SNII =
                         @ + SumElements(m, chemistry_element_count),
                      !.metal_mass_fraction_from_SNII = @ + tot]
      ELSE [s1 EXCEPT !.mass_from_AGB =
                         @ + SumElements(m, chemistry_element_count),
                      !.metal_mass_fraction_from_AGB = @ + tot]

\* Variant: a non-positive norm1 is passed over in silence.
ChannelNormalizeSilent(chan, c) ==
  LET norm0 == integrate_imf(c.lc.lo, c.lc.hi, c.stars.stellar_yield)
      norm1 == Norm1(c.lc.mass, c.lc.metals)
      lc == [c.lc EXCEPT !.norm0 = norm0]
  IN  IF chan = "SNII" /\ c.stars.SNII_mass_transfer # 1
      THEN [c EXCEPT !.lc = [lc EXCEPT !.pc = AfterChannel(chan)],
                     !.sp = [c.sp EXCEPT !.mass_from_SNII = 0,
                                   !.metal_mass_fraction_from_SNII = 0]]
      ELSE IF norm1 > 0
      THEN [c EXCEPT !.lc = [lc EXCEPT !.pc = AfterChannel(chan),
                                       !.scaled = chan],
                     !.sp = AddScaled(chan, c.sp, c.lc.metals, c.lc.mass,
                                      Div(norm0, norm1))]
      ELSE [c EXCEPT !.lc = [lc EXCEPT !.pc = AfterChannel(chan)]]

\* norm0 = integrate_imf(...), norm1, and the normalisation.
ChannelNormalize(chan, c) ==
  LET norm0 == integrate_imf(c.lc.lo, c.lc.hi, c.stars.stellar_yield)
      norm1 == Norm1(c.lc.mass, c.lc.metals)
      lc == [c.lc EXCEPT !.norm0 = norm0]
  IN  IF chan = "SNII" /\ c.stars.SNII_mass_transfer # 1
      THEN [c EXCEPT !.lc = [lc EXCEPT !.pc = AfterChannel(chan)],
                     !.sp = [c.sp EXCEPT !.mass_from_SNII = 0,
                                   !.metal_mass_fraction_from_SNII = 0]]
      ELSE IF norm1 > 0
      THEN [c EXCEPT !.lc = [lc EXCEPT !.pc = AfterChannel(chan),
                                       !.scaled = chan],
                     !.sp = AddScaled(chan, c.sp, c.lc.metals, c.lc.mass,
                                      Div(norm0, norm1))]
      ELSE [c EXCEPT !.lc = [lc EXCEPT !.pc = "fatal_norm"]]

(***************************************************************************)
(* State.  Thread t runs stars_evolve_spart on particle t; all threads     *)
(* share the one stars_props object `stars`.                               *)
(***************************************************************************)
VARIABLES
  stars,   \* the shared struct stars_props, with its buffer stellar_yield
  sparts,  \* sparts[t]: the struct spart thread t evolves
  thr,     \* thr[t]: the locals of thread t, with its position pc
  input,   \* the state the calls started from (never written)
  sched,   \* the scheduler: mode "seq" (one call after the other) or
           \* "conc" (calls interleave), the thread that ran last and the
           \* number of preemptions so far
  probe    \* one call of a pure function on its own: its arguments and,
           \* once it has returned, its results

vars == <<stars, sparts, thr, input, sched, probe>>

Threads == {1, 2}

\* Concurrent schedules are explored up to this many preemptions.
MaxPreempt == 2

MkSched(mode) == [mode |-> mode, last |-> 0, preempt |-> 0]

\* No pure function is being probed.
NoProbe == [fn |-> "none", out |-> <<>>]

Final == {"done", "fatal_range", "fatal_norm"}

Fatal == {"fatal_range", "fatal_norm"}

\* A particle of the given age (AGE units), metal mass fraction and
\* enrichment clock; its accumulators hold `dirt` (times a field number).
MkPart(age, Z, clock, dirt) ==
  [age |-> age,
   metal_mass_fraction_total |-> Z,
   metal_mass_fraction |->
     [e \in Elements |->
        IF e = chemistry_element_H THEN 7500
        ELSE IF e = chemistry_element_He THEN ONE - 7500 - Z
        ELSE Z \div (chemistry_element_count - 2)],
   time_since_enrich_Gyr |-> clock,
   num_snia |-> dirt,
   metals_released |-> [e \in Elements |-> dirt * (e + 2)],
   metal_mass_released |-> 3 * dirt,
   mass_from_AGB |-> 4 * dirt,
   metal_mass_fraction_from_AGB |-> 5 * dirt,
   mass_from_SNII |-> 6 * dirt,
   metal_mass_fraction_from_SNII |-> 7 * dirt,
   mass_from_SNIa |-> 8 * dirt,
   metal_mass_fraction_from_SNIa |-> 9 * dirt,
   iron_mass_fraction_from_SNIa |-> 10 * dirt]

\* The stars_props object after stars_evolve_init.
MkStars(flag, snia, snii, agb, loaded) ==
  [stellar_lifetime_flag |-> flag,
   SNIa_efficiency |-> ONE \div 2,
   SNIa_timescale |-> AGE \div 10,
   SNIa_mass_transfer |-> snia,
   SNII_mass_transfer |-> snii,
   AGB_mass_transfer |-> agb,
   loaded |-> loaded,
   stellar_yield |-> [imass \in ImfBins |-> 0]]

\* The locals of a call about to start with time step dt.
MkLocals(dt) ==
  [pc |-> "start", dt |-> dt,
   log10_min_mass |-> 0, log10_max_mass |-> 0,
   lo |-> 0, hi |-> 0, ilow |-> 0, ihigh |-> 0,
   iz_low |-> 0, iz_high |-> 0, dz |-> 0, i |-> 0,
   metals |-> ZeroElements, mass |-> 0, norm0 |-> 0,
   calls |-> {}, scaled |-> "none",
   base |-> [metal_mass_released |-> 0, metals_released |-> ZeroElements]]

\* Ages, time steps, metal mass fractions and clocks the calls are tried on.
Ages == {0, 40000, 100000, 397600, 400000}

Steps == {100, 20000, 300000, 500000, 600000}

Metallicities == {50, 200}

Clocks == {0, 200000}

\* Mass-transfer toggles (SNIa, SNII, AGB) and whether the tables hold
\* values.
Toggles == {<<1, 1, 1, 1>>, <<0, 1, 1, 1>>, <<1, 0, 1, 1>>, <<1, 1, 0, 1>>,
            <<1, 1, 1, 0>>, <<1, 0, 1, 0>>}

\* Sequential: both calls get the same particle but for the values its
\* accumulators hold from the step before.
Init ==
  \E flag \in 0 .. 2, g \in Toggles, age \in Ages, dt \in Steps,
     Z \in Metallicities, clock \in Clocks :
    /\ stars = MkStars(flag, g[1], g[2], g[3], g[4])
    /\ sparts = [t \in Threads |-> MkPart(age, Z, clock, t)]
    /\ thr = [t \in Threads |-> MkLocals(dt)]
    /\ input = [stars |-> stars, sparts |-> sparts, thr |-> thr]
    /\ sched = MkSched("seq")
    /\ probe = NoProbe

\* Concurrent: two particles, each with its own metallicity and step.
InitConc ==
  \E Z1 \in Metallicities, Z2 \in Metallicities, dt2 \in {300000, 600000} :
    /\ stars = MkStars(0, 1, 1, 1, 1)
    /\ sparts = [t \in Threads |->
                   IF t = 1 THEN MkPart(40000, Z1, 0, 1)
                   ELSE MkPart(40000, Z2, 0, 2)]
    /\ thr = [t \in Threads |-> MkLocals(IF t = 1 THEN 600000 ELSE dt2)]
    /\ input = [stars |-> stars, sparts |-> sparts, thr |-> thr]
    /\ sched = MkSched("conc")
    /\ probe = NoProbe

\* Running thread t now takes the processor from a call that has not
\* returned.
Preempts(t) ==
  /\ sched.last \in Threads \ {t}
  /\ thr[sched.last].pc \notin Final

\* A fatal error aborts the whole run; sequential calls wait for the calls
\* before them.
CanRun(t) ==
  /\ \A u \in Threads : thr[u].pc \notin Fatal
  /\ sched.mode = "seq" => \A u \in Threads : u < t => thr[u].pc = "done"
  /\ sched.mode = "conc" => (Preempts(t) => sched.preempt < MaxPreempt)

Ctx(t) == [stars |-> stars, sp |-> sparts[t], lc |-> thr[t]]

\* Thread t's step leaves it in context n.
Becomes(t, n) ==
  /\ stars' = n.stars
  /\ sparts' = [sparts EXCEPT ![t] = n.sp]
  /\ thr' = [thr EXCEPT ![t] = n.lc]
  /\ sched' = [sched EXCEPT !.last = t,
                             !.preempt = IF Preempts(t) THEN @ + 1 ELSE @]
  /\ UNCHANGED <<input, probe>>

StarsEvolveSpart(t) ==
  /\ thr[t].pc = "start"
  /\ CanRun(t)
  /\ Becomes(t, stars_evolve_spart(Ctx(t)))

ComputeStellarEvolution(t) ==
  /\ thr[t].pc = "compute"
  /\ CanRun(t)
  /\ Becomes(t, compute_stellar_evolution(Ctx(t)))

EvolveSNIa(t) ==
  /\ thr[t].pc = "SNIa"
  /\ CanRun(t)
  /\ Becomes(t, evolve_SNIa(Ctx(t)))

evolve_SNII_enter(c) == ChannelEnter("SNII", c)

evolve_SNII_fill_elem(c) == ChannelFillElem("SNII", c)

evolve_SNII_int_elem(c) == ChannelIntElem("SNII", c)

evolve_SNII_fill_total(c) == ChannelFillTotal("SNII", c)

evolve_SNII_int_total(c) == ChannelIntTotal("SNII", c)

evolve_SNII_fill_ejecta(c) == ChannelFillEjecta("SNII", c)

evolve_SNII_normalize(c) == ChannelNormalize("SNII", c)

evolve_AGB_enter(c) == ChannelEnter("AGB", c)

evolve_AGB_fill_elem(c) == ChannelFillElem("AGB", c)

evolve_AGB_int_elem(c) == ChannelIntElem("AGB", c)

evolve_AGB_fill_total(c) == ChannelFillTotal("AGB", c)

evolve_AGB_int_total(c) == ChannelIntTotal("AGB", c)

evolve_AGB_fill_ejecta(c) == ChannelFillEjecta("AGB", c)

evolve_AGB_normalize(c) == ChannelNormalize("AGB", c)

EvolveSNIIEnter(t) ==
  /\ thr[t].pc = "SNII"
  /\ CanRun(t)
  /\ Becomes(t, evolve_SNII_enter(Ctx(t)))

EvolveSNIIFillElem(t) ==
  /\ thr[t].pc = "SNII_fill_elem"
  /\ CanRun(t)
  /\ Becomes(t, evolve_SNII_fill_elem(Ctx(t)))

EvolveSNIIIntElem(t) ==
  /\ thr[t].pc = "SNII_int_elem"
  /\ CanRun(t)
  /\ Becomes(t, evolve_SNII_int_elem(Ctx(t)))

EvolveSNIIFillTotal(t) ==
  /\ thr[t].pc = "SNII_fill_total"
  /\ CanRun(t)
  /\ Becomes(t, evolve_SNII_fill_total(Ctx(t)))

EvolveSNIIIntTotal(t) ==
  /\ thr[t].pc = "SNII_int_total"
  /\ CanRun(t)
  /\ Becomes(t, evolve_SNII_int_total(Ctx(t)))

EvolveSNIIFillEjecta(t) ==
  /\ thr[t].pc = "SNII_fill_ejecta"
  /\ CanRun(t)
  /\ Becomes(t, evolve_SNII_fill_ejecta(Ctx(t)))

EvolveSNIINormalize(t) ==
  /\ thr[t].pc = "SNII_normalize"
  /\ CanRun(t)
  /\ Becomes(t, evolve_SNII_normalize(Ctx(t)))

EvolveAGBEnter(t) ==
  /\ thr[t].pc = "AGB"
  /\ CanRun(t)
  /\ Becomes(t, evolve_AGB_enter(Ctx(t)))

EvolveAGBFillElem(t) ==
  /\ thr[t].pc = "AGB_fill_elem"
  /\ CanRun(t)
  /\ Becomes(t, evolve_AGB_fill_elem(Ctx(t)))

EvolveAGBIntElem(t) ==
  /\ thr[t].pc = "AGB_int_elem"
  /\ CanRun(t)
  /\ Becomes(t, evolve_AGB_int_elem(Ctx(t)))

EvolveAGBFillTotal(t) ==
  /\ thr[t].pc = "AGB_fill_total"
  /\ CanRun(t)
  /\ Becomes(t, evolve_AGB_fill_total(Ctx(t)))

EvolveAGBIntTotal(t) ==
  /\ thr[t].pc = "AGB_int_total"
  /\ CanRun(t)
  /\ Becomes(t, evolve_AGB_int_total(Ctx(t)))

EvolveAGBFillEjecta(t) ==
  /\ thr[t].pc = "AGB_fill_ejecta"
  /\ CanRun(t)
  /\ Becomes(t, evolve_AGB_fill_ejecta(Ctx(t)))

EvolveAGBNormalize(t) ==
  /\ thr[t].pc = "AGB_normalize"
  /\ CanRun(t)
  /\ Becomes(t, evolve_AGB_normalize(Ctx(t)))

Next ==
  \E t \in Threads :
    \/ StarsEvolveSpart(t)
    \/ ComputeStellarEvolution(t)
    \/ EvolveSNIa(t)
    \/ EvolveSNIIEnter(t)
    \/ EvolveSNIIFillElem(t)
    \/ EvolveSNIIIntElem(t)
    \/ EvolveSNIIFillTotal(t)
    \/ EvolveSNIIIntTotal(t)
    \/ EvolveSNIIFillEjecta(t)
    \/ EvolveSNIINormalize(t)
    \/ EvolveAGBEnter(t)
    \/ EvolveAGBFillElem(t)
    \/ EvolveAGBIntElem(t)
    \/ EvolveAGBFillTotal(t)
    \/ EvolveAGBIntTotal(t)
    \/ EvolveAGBFillEjecta(t)
    \/ EvolveAGBNormalize(t)

\* Calls one after the other.
Spec == Init /\ [][Next]_vars

\* Calls on independent threads.
SpecConc == InitConc /\ [][Next]_vars

\* The step a call takes from context c, and the call run to its end alone.
StepOf(c) ==
  CASE c.lc.pc = "start" -> stars_evolve_spart(c)
    [] c.lc.pc = "compute" -> compute_stellar_evolution(c)
    [] c.lc.pc = "SNIa" -> evolve_SNIa(c)
    [] c.lc.pc = "SNII" -> evolve_SNII_enter(c)
    [] c.lc.pc = "SNII_fill_elem" -> evolve_SNII_fill_elem(c)
    [] c.lc.pc = "SNII_int_elem" -> evolve_SNII_int_elem(c)
    [] c.lc.pc = "SNII_fill_total" -> evolve_SNII_fill_total(c)
    [] c.lc.pc = "SNII_int_total" -> evolve_SNII_int_total(c)
    [] c.lc.pc = "SNII_fill_ejecta" -> evolve_SNII_fill_ejecta(c)
    [] c.lc.pc = "SNII_normalize" -> evolve_SNII_normalize(c)
    [] c.lc.pc = "AGB" -> evolve_AGB_enter(c)
    [] c.lc.pc = "AGB_fill_elem" -> evolve_AGB_fill_elem(c)
    [] c.lc.pc = "AGB_int_elem" -> evolve_AGB_int_elem(c)
    [] c.lc.pc = "AGB_fill_total" -> evolve_AGB_fill_total(c)
    [] c.lc.pc = "AGB_int_total" -> evolve_AGB_int_total(c)
    [] c.lc.pc = "AGB_fill_ejecta" -> evolve_AGB_fill_ejecta(c)
    [] c.lc.pc = "AGB_normalize" -> evolve_AGB_normalize(c)
    [] OTHER -> c

RECURSIVE RunCall(_)
RunCall(c) == IF c.lc.pc \in Final THEN c ELSE RunCall(StepOf(c))

(***************************************************************************)
(* The three channel calls of compute_stellar_evolution in another order.  *)
(* Thread 1 makes them in the order of the code, thread 2 in the order     *)
(* probe.order; each thread makes its three calls in one step.             *)
(***************************************************************************)
Orders ==
  {o \in [1 .. 3 -> {"SNIa", "SNII", "AGB"}] :
     \A i, j \in 1 .. 3 : i # j => o[i] # o[j]}

InitOrder ==
  \E flag \in 0 .. 2, g \in Toggles, age \in {0, 40000},
     dt \in {500000, 600000}, Z \in Metallicities, clock \in Clocks,
     o \in Orders :
    /\ stars = MkStars(flag, g[1], g[2], g[3], g[4])
    /\ sparts = [t \in Threads |-> MkPart(age, Z, clock, t)]
    /\ thr = [t \in Threads |-> MkLocals(dt)]
    /\ input = [stars |-> stars, sparts |-> sparts, thr |-> thr]
    /\ sched = MkSched("seq")
    /\ probe = [fn |-> "order", out |-> <<>>, order |-> o]

\* The steps of a call from context c until it reaches position stop, or
\* ends.
RECURSIVE RunSteps(_, _)
RunSteps(c, stop) ==
  IF c.lc.pc = stop \/ c.lc.pc \in Final THEN c
  ELSE RunSteps(StepOf(c), stop)

\* One channel from its call to its return; a fatal error ends the run.
RunChannel(chan, c) ==
  IF c.lc.pc \in Fatal THEN c
  ELSE RunSteps([c EXCEPT !.lc.pc = chan],
                IF chan = "SNIa" THEN "SNII" ELSE AfterChannel(chan))

\* The three calls in order o, and the return of the driver.
ChannelsInOrder(o, c) ==
  RunSteps([RunChannel(o[3], RunChannel(o[2], RunChannel(o[1], c)))
              EXCEPT !.lc.pc = IF @ \in Fatal THEN @ ELSE "done"], "done")

EvolveChannels(t) ==
  /\ thr[t].pc = "SNIa"
  /\ CanRun(t)
  /\ Becomes(t, ChannelsInOrder(IF t = 1 THEN <<"SNIa", "SNII", "AGB">>
                                ELSE probe.order, Ctx(t)))

NextOrder ==
  \E t \in Threads :
    \/ StarsEvolveSpart(t)
    \/ ComputeStellarEvolution(t)
    \/ EvolveChannels(t)

SpecOrder == InitOrder /\ [][NextOrder]_vars

(***************************************************************************)
(* One step of dt against two steps of dt / 2.  Thread 1 makes one call   *)
(* with the whole step; thread 2 makes a call with half the step, has its  *)
(* age advanced by that half, and makes a second call.  probe.out keeps    *)
(* the particle as the first of the two calls left it.                     *)
(***************************************************************************)
InitHalves ==
  \E flag \in 0 .. 2, g \in Toggles, age \in {0, 400000},
     Z \in Metallicities, clock \in Clocks :
    /\ stars = MkStars(flag, g[1], g[2], g[3], g[4])
    /\ sparts = [t \in Threads |-> MkPart(age, Z, clock, t)]
    /\ thr = [t \in Threads |->
                MkLocals(IF t = 1 THEN 600000 ELSE 300000)]
    /\ input = [stars |-> stars, sparts |-> sparts, thr |-> thr]
    /\ sched = MkSched("seq")
    /\ probe = [fn |-> "halves", out |-> <<>>]

\* Between the two calls the particle ages by the half step; its clock and
\* everything else stay as the first call left them.
AdvanceHalfStep ==
  /\ probe.fn = "halves" /\ probe.out = <<>>
  /\ thr[2].pc = "done"
  /\ probe' = [probe EXCEPT !.out = <<sparts[2]>>]
  /\ sparts' = [sparts EXCEPT ![2].age = @ + thr[2].dt]
  /\ thr' = [thr EXCEPT ![2] = MkLocals(thr[2].dt)]
  /\ UNCHANGED <<stars, input, sched>>

NextHalves == Next \/ AdvanceHalfStep

SpecHalves == InitHalves /\ [][NextHalves]_vars

(***************************************************************************)
(* The pure functions on their own.  A probe holds the arguments of one    *)
(* call; the action of the function stores what it returns.  The other     *)
(* variables rest.                                                         *)
(***************************************************************************)
Resting ==
  /\ stars = MkStars(2, 1, 1, 1, 1)
  /\ sparts = [t \in Threads |-> MkPart(0, 50, 0, 0)]
  /\ thr = [t \in Threads |-> MkLocals(0)]
  /\ input = [stars |-> stars, sparts |-> sparts, thr |-> thr]
  /\ sched = MkSched("seq")

Returns(out) ==
  /\ probe.out = <<>>
  /\ probe' = [probe EXCEPT !.out = out]
  /\ UNCHANGED <<stars, sparts, thr, input, sched>>

\* Metallicity axes: every strictly increasing axis of 1 to MaxAxis rows
\* over AxisValues.
MaxAxis == 3

AxisValues == {-30000, -20000, -15000, -10000}

Axes ==
  {a \in UNION {[1 .. n -> AxisValues] : n \in 1 .. MaxAxis} :
     \A i \in 1 .. Len(a) - 1 : a[i] < a[i + 1]}

\* Queries: log10(0), the floor sentinel and just above it, and values
\* below, on, between and above the rows.
LogMetallicities ==
  {NEG_INF, log_min_metallicity, log_min_metallicity + 1, -35000, -30000,
   -25000, -20000, -17500, -15000, -12000, -10000, -5000}

InitBin ==
  /\ Resting
  /\ \E a \in Axes, q \in LogMetallicities :
       probe = [fn |-> "determine_bin_yield", out |-> <<>>,
                axis |-> a, n_z |-> Len(a), log_metallicity |-> q]

DetermineBinYield ==
  /\ probe.fn = "determine_bin_yield"
  /\ Returns(<<determine_bin_yield(probe.log_metallicity, probe.axis,
                                   probe.n_z)>>)

NextBin == DetermineBinYield

SpecBin == InitBin /\ [][NextBin]_vars

\* Axes that may repeat a value: every non-decreasing axis of 1 to MaxAxis
\* rows over AxisValues.
FlatAxes ==
  {a \in UNION {[1 .. n -> AxisValues] : n \in 1 .. MaxAxis} :
     \A i \in 1 .. Len(a) - 1 : a[i] <= a[i + 1]}

InitFlat ==
  /\ Resting
  /\ \E a \in FlatAxes, q \in LogMetallicities :
       probe = [fn |-> "determine_bin_yield", out |-> <<>>,
                axis |-> a, n_z |-> Len(a), log_metallicity |-> q]

SpecFlat == InitFlat /\ [][NextBin]_vars

\* Ages (AGE units), steps, masses (fixed point) and metal mass fractions
\* the lifetime functions are tried on.
ProbeAges ==
  {33000, 50000, 100000, 397000, 1000000, 10000000, 50000000}

ProbeSteps == {0, 1000, 100000, 1000000}

ProbeMasses ==
  {10000, 20000, 50000, 70000, 100000, 200000, 400000, 600000, 800000}

ProbeMetallicities == {50, 75, 100, 200}

\* Ages before, at and just after the first stars die (0.003 Gyr).
YoungAges == {-10000, 0, 20000, 30000, 31000}

InitLife ==
  /\ Resting
  /\ \E flag \in 0 .. 2, Z \in ProbeMetallicities :
       \/ \E age \in ProbeAges \cup YoungAges, dt \in ProbeSteps :
            probe = [fn |-> "dying_mass_msun", out |-> <<>>, flag |-> flag,
                     metallicity |-> Z, age |-> age, dt |-> dt]
       \/ \E mass \in ProbeMasses :
            probe = [fn |-> "lifetime_in_Gyr", out |-> <<>>, flag |-> flag,
                     metallicity |-> Z, mass |-> mass]
       \/ \E age \in ProbeAges :
            probe = [fn |-> "dying_mass_lifetime", out |-> <<>>,
                     flag |-> flag, metallicity |-> Z, age |-> age]

\* dying_mass_msun at age and at age + dt.
DyingMassMsun ==
  /\ probe.fn = "dying_mass_msun"
  /\ Returns(<<dying_mass_msun(probe.age, probe.metallicity, probe.flag),
               dying_mass_msun(probe.age + probe.dt, probe.metallicity,
                               probe.flag)>>)

\* The lifetime t of a mass, then the mass dying at t.
RoundTripMass(lifetime_Gyr) ==
  <<lifetime_Gyr, dying_mass_msun(lifetime_Gyr, probe.metallicity, probe.flag)>>

LifetimeInGyr ==
  /\ probe.fn = "lifetime_in_Gyr"
  /\ Returns(RoundTripMass(lifetime_in_Gyr(probe.mass, probe.metallicity,
                                           probe.flag)))

\* The mass m dying at an age, then the lifetime of m.
RoundTripAge(mass) ==
  <<mass, lifetime_in_Gyr(mass, probe.metallicity, probe.flag)>>

DyingMassLifetime ==
  /\ probe.fn = "dying_mass_lifetime"
  /\ Returns(RoundTripAge(dying_mass_msun(probe.age, probe.metallicity,
                                          probe.flag)))

NextLife ==
  \/ DyingMassMsun
  \/ LifetimeInGyr
  \/ DyingMassLifetime

SpecLife == InitLife /\ [][NextLife]_vars

(***************************************************************************)
(* Case 2 of dying_mass_msun on lifetime tables of every shape: rows of 2  *)
(* to MaxMass log-times over TimeValues, decreasing with the mass index    *)
(* or not.  The rows of the table alternate between two rows, so that the  *)
(* two rows a metallicity brackets are every pair of rows.                 *)
(***************************************************************************)
MaxMass == 3

TimeValues == {60000, 70000, 80000}

TimeRows == UNION {[0 .. n - 1 -> TimeValues] : n \in 2 .. MaxMass}

\* Ages of 10^5.5, 10^6, ... 10^8.5 yr: log-ages below, on, between and
\* above TimeValues.
TableAges == {3162, 10000, 31623, 100000, 316228, 1000000, 3162278}

\* Metal mass fractions below, between and above the rows of the table.
TableMetallicities == {25, 75, 400}

InitTable ==
  /\ Resting
  /\ \E r1 \in TimeRows, r2 \in TimeRows, Z \in TableMetallicities,
        age \in TableAges, beyond \in {50000, 90000} :
       /\ DOMAIN r1 = DOMAIN r2
       /\ probe = [fn |-> "dying_mass_table", out |-> <<>>,
                   lifetimes |->
                     [n_mass |-> Cardinality(DOMAIN r1),
                      dyingtime |-> [k \in 0 .. lifetimes_n_z - 1 |->
                                       IF k % 2 = 0 THEN r1 ELSE r2],
                      beyond |-> beyond],
                   metallicity |-> Z, age |-> age]

\* Case 2 from log_age_yr on (the age is positive): the brackets and the
\* mass, and log_age_yr.
DyingMassOnTable ==
  /\ probe.fn = "dying_mass_table"
  /\ Returns(<<DyingMassBracketed(probe.lifetimes, LogAgeYr(probe.age),
                                  MetalBracket(probe.metallicity)),
               LogAgeYr(probe.age)>>)

NextTable == DyingMassOnTable

SpecTable == InitTable /\ [][NextTable]_vars

(***************************************************************************)
(* Properties                                                              *)
(***************************************************************************)
\* The per-step accumulators of a particle.
Accumulators(sp) ==
  <<sp.num_snia, sp.metals_released, sp.metal_mass_released,
    sp.mass_from_AGB, sp.metal_mass_fraction_from_AGB,
    sp.mass_from_SNII, sp.metal_mass_fraction_from_SNII,
    sp.mass_from_SNIa, sp.metal_mass_fraction_from_SNIa,
    sp.iron_mass_fraction_from_SNIa>>

AccumulatorsZero(sp) ==
  Accumulators(sp) = <<0, [e \in Elements |-> 0], 0, 0, 0, 0, 0, 0, 0, 0>>

\* The call of thread t as it started, and the dying masses and the range
\* its driver computes.
InitialCall(t) ==
  [stars |-> input.stars, sp |-> input.sparts[t], lc |-> input.thr[t]]

InputDyingMass(t, dt) ==
  dying_mass_msun(input.sparts[t].age + dt,
                  input.sparts[t].metal_mass_fraction_total,
                  input.stars.stellar_lifetime_flag)

InputRange(t) ==
  DyingRange(input.sparts[t], input.thr[t].dt,
             input.stars.stellar_lifetime_flag)

\* C1: calls running concurrently on distinct particles that share one
\* stars_props leave each particle, when its call returns, with the
\* accumulators the call leaves when it runs alone.
C1_InterleavingsAgree ==
  \A t \in Threads :
    thr[t].pc = "done" =>
      Accumulators(sparts[t]) = Accumulators(RunCall(InitialCall(t)).sp)

\* C2: nothing reachable through the shared stars_props is written during
\* an evolution call.
C2_PropsNeverWritten == stars = input.stars

\* evolve_SNIa has run on thread t with the maximum dying mass above its cap.
SNIaClipped(t) ==
  /\ "SNIa" \in thr[t].calls
  /\ thr[t].log10_min_mass < log10_SNIa_max_mass_msun
  /\ thr[t].log10_max_mass > log10_SNIa_max_mass_msun

LifetimeAtCap(t) ==
  lifetime_in_Gyr(Pow10Of(log10_SNIa_max_mass_msun, 4),
                  input.sparts[t].metal_mass_fraction_total,
                  input.stars.stellar_lifetime_flag)

FrameOfCall(t) ==
  /\ sparts[t].age = input.sparts[t].age
  /\ sparts[t].metal_mass_fraction = input.sparts[t].metal_mass_fraction
  /\ sparts[t].metal_mass_fraction_total
       = input.sparts[t].metal_mass_fraction_total

\* C3 (amended): a call changes neither the particle's age nor its element
\* mass fractions; the enrichment clock keeps its value unless evolve_SNIa
\* ran with the maximum dying mass above its cap, and then it holds the
\* lifetime of a star at the cap.
C3_FrameExceptClock ==
  \A t \in Threads :
    /\ FrameOfCall(t)
    /\ sparts[t].time_since_enrich_Gyr =
         IF SNIaClipped(t) THEN LifetimeAtCap(t)
         ELSE input.sparts[t].time_since_enrich_Gyr

\* C3 as stated: age, element mass fractions and the enrichment clock have
\* the same value after the call as before it.
C3_FrameWithClock ==
  \A t \in Threads :
    /\ FrameOfCall(t)
    /\ sparts[t].time_since_enrich_Gyr = input.sparts[t].time_since_enrich_Gyr

\* C3: a call has returned with the clock moved.
C3_ClockMoved ==
  \E t \in Threads :
    /\ thr[t].pc = "done"
    /\ SNIaClipped(t)
    /\ sparts[t].time_since_enrich_Gyr
         # input.sparts[t].time_since_enrich_Gyr

\* C4: for every query and every strictly increasing axis,
\* determine_bin_yield returns iz_low <= iz_high, both rows of the axis,
\* and a fraction dz with 0 <= dz <= 1.
C4_BinYieldInRange ==
  probe.fn = "determine_bin_yield" /\ probe.out # <<>> =>
    LET r == probe.out[1]
    IN  /\ r.iz_low <= r.iz_high
        /\ r.iz_low \in 0 .. probe.n_z - 1
        /\ r.iz_high \in 0 .. probe.n_z - 1
        /\ 0 <= r.dz /\ r.dz <= ONE

\* C4: a query strictly between two rows has returned a proper fraction.
C4_BinYieldInterior ==
  /\ probe.fn = "determine_bin_yield" /\ probe.out # <<>>
  /\ probe.n_z >= 2
  /\ probe.log_metallicity > probe.axis[1]
  /\ probe.log_metallicity < probe.axis[probe.n_z]
  /\ probe.out[1].iz_low < probe.out[1].iz_high
  /\ 0 < probe.out[1].dz /\ probe.out[1].dz < ONE

\* C5: if the dying masses at age and at age + dt are equal, the call
\* invokes no channel and returns with every accumulator zero.
C5_ZeroWidthStep ==
  \A t \in Threads :
    thr[t].pc = "done" /\ InputDyingMass(t, 0) = InputDyingMass(t, input.thr[t].dt)
      => thr[t].calls = {} /\ AccumulatorsZero(sparts[t])

\* C5: a zero-width call has returned on a particle whose accumulators
\* held values before.
C5_ZeroWidthReturned ==
  \E t \in Threads :
    /\ thr[t].pc = "done"
    /\ InputDyingMass(t, 0) = InputDyingMass(t, input.thr[t].dt)
    /\ ~AccumulatorsZero(input.sparts[t])

SameButAccumulators(sp1, sp2) ==
  /\ sp1.age = sp2.age
  /\ sp1.metal_mass_fraction = sp2.metal_mass_fraction
  /\ sp1.metal_mass_fraction_total = sp2.metal_mass_fraction_total
  /\ sp1.time_since_enrich_Gyr = sp2.time_since_enrich_Gyr

\* C6: two particles that differ only in their accumulators end their
\* calls with identical accumulators.
C6_ResetHidesHistory ==
  /\ SameButAccumulators(input.sparts[1], input.sparts[2])
  /\ thr[1].pc = "done"
  /\ thr[2].pc = "done"
  => Accumulators(sparts[1]) = Accumulators(sparts[2])

\* C6: both calls have returned, the particles came with different
\* accumulators and the channels have released mass.
C6_BothReturned ==
  /\ thr[1].pc = "done"
  /\ thr[2].pc = "done"
  /\ Accumulators(input.sparts[1]) # Accumulators(input.sparts[2])
  /\ {"SNIa", "SNII", "AGB"} \subseteq thr[2].calls
  /\ sparts[2].mass_from_SNII > 0

\* C7: if the log10 dying mass at age + dt exceeds the one at age, the
\* driver fails fatally, before any channel is invoked and with every
\* accumulator at its reset value of zero.
C7_InvertedRangeFatal ==
  \A t \in Threads :
    /\ thr[t].pc \notin {"start", "compute"}
         /\ InputRange(t).min > InputRange(t).max
         => thr[t].pc = "fatal_range"
    /\ thr[t].pc = "fatal_range"
         => thr[t].calls = {} /\ AccumulatorsZero(sparts[t])

\* C7: the driver has failed on an inverted range, on a particle whose
\* accumulators held values before.
C7_FatalReached ==
  \E t \in Threads :
    /\ thr[t].pc = "fatal_range"
    /\ InputRange(t).min > InputRange(t).max
    /\ ~AccumulatorsZero(input.sparts[t])

\* C8: dying_mass_msun is non-increasing in age, for each of the three
\* models and any metallicity.
C8_DyingMassNonIncreasing ==
  probe.fn = "dying_mass_msun" /\ probe.out # <<>> =>
    probe.out[2] <= probe.out[1]

\* A twentieth of the value: the tolerance of a round trip.
Within(a, b) == 20 * Abs(a - b) <= b

\* C9: over the interior of the domain dying_mass_msun and lifetime_in_Gyr
\* are mutual inverses within tolerance: dying_mass(lifetime(m)) = m and
\* lifetime(dying_mass(t)) = t.
C9_MutualInverses ==
  /\ probe.fn = "lifetime_in_Gyr" /\ probe.out # <<>>
       /\ probe.out[2] < imf_max_mass_msun
       => Within(probe.out[2], probe.mass)
  /\ probe.fn = "dying_mass_lifetime" /\ probe.out # <<>>
       /\ probe.out[1] < imf_max_mass_msun
       => Within(probe.out[2], probe.age)

\* The IMF integral of the interpolated table ejecta over the range of the
\* channel thread t has run.
TableEjecta(t) ==
  LET value(imass) == EjectaYield(thr[t].scaled, thr[t], imass)
  IN  integrate_imf(thr[t].lo, thr[t].hi,
                    [imass \in ImfBins |-> input.stars.loaded * value(imass)])

\* What the channel added to metal_mass_released and to the hydrogen and
\* helium of metals_released.
ChannelAdded(t) ==
  (sparts[t].metal_mass_released - thr[t].base.metal_mass_released)
  + (sparts[t].metals_released[chemistry_element_H]
     - thr[t].base.metals_released[chemistry_element_H])
  + (sparts[t].metals_released[chemistry_element_He]
     - thr[t].base.metals_released[chemistry_element_He])

\* The rounding of the ratio norm0 / norm1 and of the three products.
ScalingTolerance(t) ==
  2 + (thr[t].mass + thr[t].metals[chemistry_element_H]
       + thr[t].metals[chemistry_element_He]) \div ONE

\* C10: after the scaling step of a channel (SNII or AGB), what the channel
\* added to metal_mass_released and to metals_released[H] and [He] equals
\* norm0, the IMF integral of the interpolated table ejecta over its range.
C10_Normalization ==
  \A t \in Threads :
    thr[t].scaled \in {"SNII", "AGB"} =>
      /\ thr[t].norm0 = TableEjecta(t)
      /\ Abs(ChannelAdded(t) - thr[t].norm0) <= ScalingTolerance(t)

\* C10: both channels have scaled a release that is not zero.
C10_BothScaled ==
  \E t \in Threads :
    /\ thr[t].pc = "done"
    /\ thr[t].scaled = "AGB"
    /\ "SNII" \in thr[t].calls
    /\ sparts[t].mass_from_SNII > 0
    /\ thr[t].norm0 > 0
    /\ ChannelAdded(t) > 0

\* The call of determine_bin_yield under probe has returned r.
BinReturned == probe.fn = "determine_bin_yield" /\ probe.out # <<>>

\* The width of the bracket returned.
BinWidth ==
  probe.axis[probe.out[1].iz_high + 1] - probe.axis[probe.out[1].iz_low + 1]

\* C18: for every query and every non-decreasing axis, if the bracket
\* determine_bin_yield returns has zero width (metallicity[iz_high] -
\* metallicity[iz_low] <= 0), the fraction it returns is exactly 0.
C18_ZeroWidthFraction ==
  BinReturned /\ BinWidth <= 0 => probe.out[1].dz = 0

\* C18: a bracket of two distinct rows with the same axis value has been
\* returned for a query above the floor.
C18_FlatBracket ==
  /\ BinReturned
  /\ probe.log_metallicity > log_min_metallicity
  /\ probe.out[1].iz_low < probe.out[1].iz_high
  /\ BinWidth = 0

\* The query equals row k of the axis, a row with rows on both sides
\* (0 < k < n_z - 1, rows counted from 0).
QueryOnInteriorRow(k) ==
  /\ BinReturned
  /\ probe.log_metallicity > log_min_metallicity
  /\ 0 < k /\ k < probe.n_z - 1
  /\ probe.log_metallicity = probe.axis[k + 1]

\* C19 (amended): above the floor sentinel the low index advances while the
\* next axis value is strictly less than the query, so a query equal to an
\* interior axis value metallicity[k] returns iz_low = k - 1, iz_high = k
\* and fraction 1.
C19_ScanStopsAtEqualRow ==
  /\ BinReturned /\ probe.log_metallicity > log_min_metallicity =>
       /\ \A j \in 1 .. probe.out[1].iz_low :
            probe.axis[j + 1] < probe.log_metallicity
       /\ probe.out[1].iz_low < probe.n_z - 1 =>
            probe.axis[probe.out[1].iz_low + 2] >= probe.log_metallicity
  /\ \A k \in 0 .. MaxAxis :
       QueryOnInteriorRow(k) =>
         probe.out[1] = [iz_low |-> k - 1, iz_high |-> k, dz |-> ONE]

\* C19 as stated: the low index advances while the next axis value is less
\* than or equal to the query, so a query equal to an interior axis value
\* metallicity[k] returns iz_low = k, iz_high = k + 1 and fraction 0.
C19_ScanPassesEqualRow ==
  \A k \in 0 .. MaxAxis :
    QueryOnInteriorRow(k) =>
      probe.out[1] = [iz_low |-> k, iz_high |-> k + 1, dz |-> 0]

\* C19: a query equal to an interior row has been answered.
C19_InteriorRowQueried == \E k \in 0 .. MaxAxis : QueryOnInteriorRow(k)

\* C20: determine_bin_yield clamps a query outside the axis to the nearest
\* edge row and raises no error: at or below the floor sentinel it returns
\* (0, 0, 0); above the sentinel and below metallicity[0] it returns low
\* index 0 and fraction 0; above metallicity[n_z - 1] it returns
\* iz_low = iz_high = n_z - 1 and fraction 0.
C20_ClampsOutside ==
  BinReturned =>
    /\ probe.log_metallicity <= log_min_metallicity =>
         probe.out[1] = [iz_low |-> 0, iz_high |-> 0, dz |-> 0]
    /\ probe.log_metallicity > log_min_metallicity
         /\ probe.log_metallicity < probe.axis[1] =>
         probe.out[1].iz_low = 0 /\ probe.out[1].dz = 0
    /\ probe.log_metallicity > probe.axis[probe.n_z] =>
         probe.out[1] = [iz_low |-> probe.n_z - 1, iz_high |-> probe.n_z - 1,
                         dz |-> 0]

\* C20: queries on both sides of an axis of several rows have been
\* answered: one between the sentinel and the first row, one above the last.
C20_OutsideQueried ==
  /\ BinReturned
  /\ probe.n_z >= 2
  /\ \/ /\ probe.log_metallicity > log_min_metallicity
        /\ probe.log_metallicity < probe.axis[1]
     \/ probe.log_metallicity > probe.axis[probe.n_z]

\* C12: for every age, metallicity and lifetime model dying_mass_msun
\* returns at most imf_max_mass_msun; an age at or below the lowest
\* threshold (0.003 Gyr) of the two analytic models, and an age <= 0 of the
\* tabulated model, returns exactly imf_max_mass_msun.
C12_DyingMassCapped ==
  probe.fn = "dying_mass_msun" /\ probe.out # <<>> =>
    /\ probe.out[1] <= imf_max_mass_msun
    /\ probe.out[2] <= imf_max_mass_msun
    /\ probe.flag \in {0, 1} /\ probe.age <= 30000 =>
         probe.out[1] = imf_max_mass_msun
    /\ probe.flag = 2 /\ probe.age <= 0 => probe.out[1] = imf_max_mass_msun

\* C12: the mass computed for an age just above the threshold exceeded the
\* maximum and was returned as the maximum.
C12_ClampApplied ==
  /\ probe.fn = "dying_mass_msun" /\ probe.out # <<>>
  /\ probe.age > 30000
  /\ DyingMassRaw(probe.age, probe.metallicity, probe.flag)
       > imf_max_mass_msun
  /\ probe.out[1] = imf_max_mass_msun

\* The scenario: age 0 Gyr, dt 0.05 Gyr, total metal mass fraction 0.02,
\* lifetime model 0 (Padovani & Matteucci 1993).
Scenario(t) ==
  /\ input.stars.stellar_lifetime_flag = 0
  /\ input.sparts[t].age = 0
  /\ input.thr[t].dt = 500000
  /\ input.sparts[t].metal_mass_fraction_total = 200

\* C14 (amended): in the scenario the driver resolves a minimum dying mass
\* just below the SNII minimum of 6 solar masses (and a maximum of 100), so
\* evolve_SNII runs on the non-empty range from 6 to 100 solar masses and
\* evolve_AGB, when AGB mass transfer is on, passes its empty-range check
\* and runs on the range from the minimum dying mass to 6 solar masses.
C14_ScenarioReachesAGB ==
  \A t \in Threads :
    Scenario(t) =>
      /\ thr[t].pc \notin {"start", "compute"} =>
           /\ thr[t].log10_max_mass = log10_SNII_max_mass_msun
           /\ thr[t].log10_min_mass < log10_SNII_min_mass_msun
           /\ thr[t].log10_min_mass > log10_SNII_min_mass_msun - 100
      /\ thr[t].pc = "AGB" =>
           /\ thr[t].lo = log10_SNII_min_mass_msun
           /\ thr[t].hi = log10_SNII_max_mass_msun
      /\ thr[t].pc = "done" /\ input.stars.AGB_mass_transfer = 1 =>
           /\ thr[t].scaled = "AGB"
           /\ thr[t].lo = thr[t].log10_min_mass
           /\ thr[t].hi = log10_SNII_min_mass_msun

\* C14 as stated: in the scenario the log10 minimum dying mass is at least
\* log10 6, evolve_SNII runs on a non-empty range and evolve_AGB returns at
\* its empty-range check with the AGB accumulators at zero.
C14_ScenarioSkipsAGB ==
  \A t \in Threads :
    Scenario(t) /\ thr[t].pc = "done" =>
      /\ thr[t].log10_min_mass >= log10_SNII_min_mass_msun
      /\ sparts[t].mass_from_AGB = 0
      /\ sparts[t].metal_mass_fraction_from_AGB = 0

\* C14: the scenario has run to its end with all channels on, and both
\* SNII and AGB have released mass.
C14_ScenarioDone ==
  \E t \in Threads :
    /\ Scenario(t)
    /\ thr[t].pc = "done"
    /\ thr[t].scaled = "AGB"
    /\ sparts[t].mass_from_SNII > 0
    /\ sparts[t].mass_from_AGB > 0

InsideSNII(t) ==
  thr[t].pc \in {"SNII_fill_elem", "SNII_int_elem", "SNII_fill_total",
                 "SNII_int_total", "SNII_fill_ejecta", "SNII_normalize"}

\* C15: the metallicity bracket (iz_low, iz_high, dz) evolve_SNII indexes
\* the SNII yield arrays with is the one of the SNII table's own axis: the
\* rows, among all SNII_n_z, that bracket log10 of the total metal mass
\* fraction.
C15_SNIIBracketOnOwnAxis ==
  \A t \in Threads :
    InsideSNII(t) =>
      [iz_low |-> thr[t].iz_low, iz_high |-> thr[t].iz_high,
       dz |-> thr[t].dz]
        = determine_bin_yield(
            Log10Float(sparts[t].metal_mass_fraction_total, 4),
            yield_SNII_metallicity, SNII_n_z)

\* evolve_SNIa has run on thread t past its range check.
SNIaRan(t) ==
  /\ "SNIa" \in thr[t].calls
  /\ thr[t].log10_min_mass < log10_SNIa_max_mass_msun

\* C16: whenever evolve_SNIa runs (minimum dying mass below its cap), with
\* SNIa mass transfer on or off, the particle's enrichment clock is advanced
\* over the step: it ends later than it started.
C16_ClockAdvances ==
  \A t \in Threads :
    SNIaRan(t) /\ input.thr[t].dt > 0 =>
      sparts[t].time_since_enrich_Gyr
        > input.sparts[t].time_since_enrich_Gyr

\* efficiency * (exp(-clock / tau) - exp(-(clock + dt) / tau)) with the
\* efficiency and timescale of the call.
DelayCount(clock, dt) ==
  Mul(ExpNeg(clock, input.stars.SNIa_timescale)
      - ExpNeg(clock + dt, input.stars.SNIa_timescale),
      input.stars.SNIa_efficiency)

\* The step evolve_SNIa integrates over: dt, or (clock_before + dt) -
\* lifetime_at_cap when the maximum dying mass was clipped.
AdjustedStep(t) ==
  IF SNIaClipped(t)
  THEN input.sparts[t].time_since_enrich_Gyr + input.thr[t].dt
       - LifetimeAtCap(t)
  ELSE input.thr[t].dt

\* C17 (amended): the event count in num_snia is efficiency *
\* (exp(-clock/tau) - exp(-(clock + dt_adjusted)/tau)) with clock the value
\* time_since_enrich_Gyr holds when the rate is evaluated: the clock on
\* entry when the range was not clipped, lifetime_at_cap when it was.
C17_CountFromCurrentClock ==
  \A t \in Threads :
    SNIaRan(t) =>
      sparts[t].num_snia
        = DelayCount(IF SNIaClipped(t) THEN LifetimeAtCap(t)
                     ELSE input.sparts[t].time_since_enrich_Gyr,
                     AdjustedStep(t))

\* C17 as stated: the event count is efficiency * (exp(-clock_before/tau)
\* - exp(-(clock_before + dt_adjusted)/tau)) with clock_before the clock on
\* entry to evolve_SNIa, clipped or not.
C17_CountFromEntryClock ==
  \A t \in Threads :
    SNIaRan(t) =>
      sparts[t].num_snia
        = DelayCount(input.sparts[t].time_since_enrich_Gyr, AdjustedStep(t))

\* C17: evolve_SNIa has counted events over a clipped range, on a particle
\* whose clock was not at the lifetime of the cap.
C17_ClippedCount ==
  \E t \in Threads :
    /\ thr[t].pc = "done"
    /\ SNIaClipped(t)
    /\ input.sparts[t].time_since_enrich_Gyr # LifetimeAtCap(t)
    /\ sparts[t].num_snia > 0

\* The whole step and both half steps have returned.
HalvesDone ==
  /\ probe.fn = "halves" /\ probe.out # <<>>
  /\ thr[1].pc = "done"
  /\ thr[2].pc = "done"

\* Within a twentieth of b, and two units of rounding.
WithinStep(a, b) == 20 * Abs(a - b) <= Abs(b) + 40

\* C11: two driver calls with step dt / 2 each (the age advanced by dt / 2
\* in between, the SNIa clock carried over as the first call left it) give
\* a cumulative SNIa event count and cumulative element accumulators equal,
\* within tolerance, to those of one call with step dt.
C11_HalvesCompose ==
  HalvesDone =>
    /\ WithinStep(probe.out[1].num_snia + sparts[2].num_snia,
                  sparts[1].num_snia)
    /\ \A e \in Elements :
         WithinStep(probe.out[1].metals_released[e]
                    + sparts[2].metals_released[e],
                    sparts[1].metals_released[e])


\* C27: after a completed stars_evolve_spart call with SNIa efficiency >= 0,
\* timescale > 0, dt >= 0 and a non-negative enrichment clock, the recorded
\* SNIa event count num_snia is non-negative, the branch that clips the
\* maximum dying mass to the SNIa cap included.
C27_CountNonNegative ==
  \A t \in Threads :
    (/\ thr[t].pc = "done"
     /\ input.stars.SNIa_efficiency >= 0
     /\ input.stars.SNIa_timescale > 0
     /\ input.thr[t].dt >= 0
     /\ input.sparts[t].time_since_enrich_Gyr >= 0)
      => sparts[t].num_snia >= 0


\* The call of thread t is past the reset of stars_evolve_spart: in the
\* driver, returned from it, or stopped by a fatal error.
PastReset(t) == thr[t].pc \notin {"start"}

\* C26: after every driver call the SNIa mass and the SNIa metal
\* accumulators are equal, with SNIa mass transfer on or off and whether or
\* not the channel ran.
C26_SNIaMassIsMetal ==
  \A t \in Threads :
    PastReset(t) =>
      sparts[t].mass_from_SNIa = sparts[t].metal_mass_fraction_from_SNIa

\* A call has returned after evolve_SNIa released metals.
C26_SNIaReleased ==
  \E t \in Threads :
    /\ thr[t].pc = "done"
    /\ input.stars.SNIa_mass_transfer = 1
    /\ sparts[t].mass_from_SNIa > 0
    /\ sparts[t].mass_from_SNIa # input.sparts[t].mass_from_SNIa

\* C28: after every completed driver call the shared total
\* metal_mass_released is the sum of the metal accumulators of the three
\* channels, for every combination of the mass-transfer toggles.
C28_TotalIsSumOfChannels ==
  \A t \in Threads :
    thr[t].pc = "done" =>
      sparts[t].metal_mass_released
        = sparts[t].metal_mass_fraction_from_SNIa
          + sparts[t].metal_mass_fraction_from_SNII
          + sparts[t].metal_mass_fraction_from_AGB

\* A call has returned with metals from each of the three channels.
C28_ThreeChannelsReleased ==
  \E t \in Threads :
    /\ thr[t].pc = "done"
    /\ sparts[t].metal_mass_fraction_from_SNIa > 0
    /\ sparts[t].metal_mass_fraction_from_SNII > 0
    /\ sparts[t].metal_mass_fraction_from_AGB > 0


\* The positions of a call inside evolve_SNII and inside evolve_AGB.
SNIIPositions ==
  {"SNII", "SNII_fill_elem", "SNII_int_elem", "SNII_fill_total",
   "SNII_int_total", "SNII_fill_ejecta", "SNII_normalize"}

AGBPositions ==
  {"AGB", "AGB_fill_elem", "AGB_int_elem", "AGB_fill_total",
   "AGB_int_total", "AGB_fill_ejecta", "AGB_normalize"}

\* The step about to be taken is the return (or the fatal stop) of the
\* channel thread t is in.
LeavesSNII(t) ==
  thr[t].pc \in SNIIPositions /\ thr'[t].pc \notin SNIIPositions

LeavesAGB(t) ==
  thr[t].pc \in AGBPositions /\ thr'[t].pc \notin AGBPositions

\* The fields of one channel alone.
SNIaFields(sp) ==
  <<sp.mass_from_SNIa, sp.metal_mass_fraction_from_SNIa,
    sp.iron_mass_fraction_from_SNIa>>

SNIIFields(sp) == <<sp.mass_from_SNII, sp.metal_mass_fraction_from_SNII>>

AGBFields(sp) == <<sp.mass_from_AGB, sp.metal_mass_fraction_from_AGB>>

\* The value norm1 has when thread t reaches the normalisation, and the
\* factor norm0 / norm1 of the step being taken.
Norm1Of(t) == Norm1(thr[t].mass, thr[t].metals)

ScaleOf(t) == Div(thr'[t].norm0, Norm1Of(t))

\* The step adds the integrals of thread t, each times norm0 / norm1, to
\* the shared totals.
AddsToShared(t) ==
  /\ \A e \in Elements :
       sparts'[t].metals_released[e]
         = sparts[t].metals_released[e] + Mul(thr[t].metals[e], ScaleOf(t))
  /\ sparts'[t].metal_mass_released
       = sparts[t].metal_mass_released + Mul(thr[t].mass, ScaleOf(t))

\* The sum of the scaled element integrals of thread t.
ScaledElementSum(t) ==
  SumElements([e \in Elements |-> Mul(thr[t].metals[e], ScaleOf(t))],
              chemistry_element_count)

\* C21: evolve_SNII raises the fatal normalization error exactly when its
\* clamped range [max(min, log10 6), min(max, log10 100)] is non-empty, SNII
\* mass transfer is on and norm1 <= 0; with norm1 > 0 every element value
\* and the total-metal value is scaled by norm0 / norm1 before it is added
\* to the accumulators; with the transfer off no error is raised and the
\* SNII accumulators are zero.
C21_SNIINormalization ==
  [][\A t \in Threads :
       LeavesSNII(t) =>
         LET lo == Max(thr[t].log10_min_mass, log10_SNII_min_mass_msun)
             hi == Min(thr[t].log10_max_mass, log10_SNII_max_mass_msun)
             on == stars.SNII_mass_transfer = 1
         IN  /\ thr'[t].pc = "fatal_norm"
                  <=> (lo < hi /\ on /\ Norm1Of(t) <= 0)
             /\ (lo < hi /\ on /\ Norm1Of(t) > 0) =>
                  /\ AddsToShared(t)
                  /\ sparts'[t].mass_from_SNII
                       = sparts[t].mass_from_SNII + ScaledElementSum(t)
                  /\ sparts'[t].metal_mass_fraction_from_SNII
                       = sparts[t].metal_mass_fraction_from_SNII
                         + Mul(thr[t].mass, ScaleOf(t))
             /\ ~on => /\ thr'[t].pc = "AGB"
                       /\ SNIIFields(sparts'[t]) = <<0, 0>>]_vars

\* evolve_SNII has stopped a call with the fatal normalization error.
C21_SNIIFatal ==
  \E t \in Threads :
    /\ thr[t].pc = "fatal_norm"
    /\ "AGB" \notin thr[t].calls
    /\ input.stars.SNII_mass_transfer = 1

\* C22: evolve_AGB changes nothing when AGB mass transfer is off, and
\* nothing when its range [min, min(max, log10 6)] is empty; in every other
\* case it either stops with the fatal error (norm1 <= 0) or adds the
\* values scaled by norm0 / norm1 to the accumulators.
C22_AGBReturnsOrNormalizes ==
  [][\A t \in Threads :
       LeavesAGB(t) =>
         LET hi == Min(thr[t].log10_max_mass, log10_SNII_min_mass_msun)
         IN  IF stars.AGB_mass_transfer = 0 \/ thr[t].log10_min_mass >= hi
             THEN /\ thr'[t].pc = "done"
                  /\ sparts' = sparts
                  /\ stars' = stars
             ELSE \/ /\ Norm1Of(t) <= 0
                     /\ thr'[t].pc = "fatal_norm"
                     /\ sparts' = sparts
                  \/ /\ Norm1Of(t) > 0
                     /\ thr'[t].pc = "done"
                     /\ AddsToShared(t)
                     /\ sparts'[t].mass_from_AGB
                          = sparts[t].mass_from_AGB + ScaledElementSum(t)
                     /\ sparts'[t].metal_mass_fraction_from_AGB
                          = sparts[t].metal_mass_fraction_from_AGB
                            + Mul(thr[t].mass, ScaleOf(t))]_vars

\* evolve_AGB has returned at once from a call that had released metals:
\* its transfer is off, or no star below 6 solar masses died in the step.
C22_AGBSkipped ==
  \E t \in Threads :
    /\ thr[t].pc = "done"
    /\ "AGB" \in thr[t].calls
    /\ thr[t].log10_min_mass < thr[t].log10_max_mass
    /\ \/ input.stars.AGB_mass_transfer = 0
       \/ thr[t].log10_min_mass >= log10_SNII_min_mass_msun
    /\ sparts[t].metal_mass_released > 0


\* The totals every channel adds to.
SharedTotals(sp) == <<sp.metals_released, sp.metal_mass_released>>

\* The step about to be taken is evolve_SNIa past its range check.
SNIaRuns(t) ==
  /\ thr[t].pc = "SNIa" /\ thr'[t].pc # "SNIa"
  /\ thr[t].log10_min_mass < log10_SNIa_max_mass_msun

\* The step about to be taken is the normalisation of a channel that goes
\* on to add its values.
Normalizes(t) ==
  /\ thr[t].pc \in {"SNII_normalize", "AGB_normalize"}
  /\ thr'[t].pc \notin {"SNII_normalize", "AGB_normalize", "fatal_norm"}
  /\ thr[t].pc = "SNII_normalize" => stars.SNII_mass_transfer = 1

\* C23: the accumulators of the channels are disjoint: evolve_SNIa never
\* changes the SNII or AGB fields, evolve_SNII never changes the SNIa or AGB
\* fields or num_snia, evolve_AGB never changes the SNIa or SNII fields or
\* num_snia; metals_released[] and metal_mass_released alone are written by
\* more than one channel, and by addition only.
C23_ChannelsDisjoint ==
  [][\A t \in Threads :
       /\ thr[t].pc = "SNIa" =>
            /\ SNIIFields(sparts'[t]) = SNIIFields(sparts[t])
            /\ AGBFields(sparts'[t]) = AGBFields(sparts[t])
       /\ thr[t].pc \in SNIIPositions =>
            /\ SNIaFields(sparts'[t]) = SNIaFields(sparts[t])
            /\ AGBFields(sparts'[t]) = AGBFields(sparts[t])
            /\ sparts'[t].num_snia = sparts[t].num_snia
       /\ thr[t].pc \in AGBPositions =>
            /\ SNIaFields(sparts'[t]) = SNIaFields(sparts[t])
            /\ SNIIFields(sparts'[t]) = SNIIFields(sparts[t])
            /\ sparts'[t].num_snia = sparts[t].num_snia
       /\ IF SNIaRuns(t) /\ stars.SNIa_mass_transfer = 1
          THEN /\ \A e \in Elements :
                    sparts'[t].metals_released[e]
                      = sparts[t].metals_released[e]
                        + Mul(yield_SNIa_SPH(e), sparts'[t].num_snia)
               /\ sparts'[t].metal_mass_released
                    = sparts[t].metal_mass_released
                      + Mul(yield_SNIa_total_metals_SPH,
                            sparts'[t].num_snia)
          ELSE IF Normalizes(t)
          THEN AddsToShared(t)
          ELSE thr[t].pc # "start" =>
                 SharedTotals(sparts'[t]) = SharedTotals(sparts[t])]_vars

\* evolve_AGB has added to totals that held what evolve_SNIa and
\* evolve_SNII had added.
C23_AddedOnTop ==
  \E t \in Threads :
    /\ thr[t].pc = "done" /\ thr[t].scaled = "AGB"
    /\ sparts[t].mass_from_SNIa > 0
    /\ sparts[t].mass_from_SNII > 0
    /\ \A e \in Elements :
         /\ thr[t].base.metals_released[e] > 0
         /\ sparts[t].metals_released[e] > thr[t].base.metals_released[e]

\* C24: a channel whose mass-transfer toggle is off contributes nothing to
\* the shared accumulators: after a driver call metals_released[] and
\* metal_mass_released hold nothing from it and its own mass and metal (and,
\* for SNIa, iron) accumulators are zero, while evolve_SNIa with its
\* transfer off still records num_snia.
C24_DisabledAddsNothing ==
  [][\A t \in Threads :
       /\ (thr[t].pc = "SNIa" /\ stars.SNIa_mass_transfer # 1) =>
            /\ SharedTotals(sparts'[t]) = SharedTotals(sparts[t])
            /\ SNIaRuns(t) =>
                 sparts'[t].num_snia
                   = num_of_SNIa_per_msun(
                       stars, sparts'[t].time_since_enrich_Gyr,
                       sparts[t].time_since_enrich_Gyr + thr[t].dt
                       - sparts'[t].time_since_enrich_Gyr)
       /\ (thr[t].pc \in SNIIPositions /\ stars.SNII_mass_transfer # 1) =>
            SharedTotals(sparts'[t]) = SharedTotals(sparts[t])
       /\ (thr[t].pc \in AGBPositions /\ stars.AGB_mass_transfer = 0) =>
            SharedTotals(sparts'[t]) = SharedTotals(sparts[t])
       /\ thr'[t].pc = "done" =>
            /\ stars.SNIa_mass_transfer # 1 =>
                 SNIaFields(sparts'[t]) = <<0, 0, 0>>
            /\ stars.SNII_mass_transfer # 1 =>
                 SNIIFields(sparts'[t]) = <<0, 0>>
            /\ stars.AGB_mass_transfer = 0 =>
                 AGBFields(sparts'[t]) = <<0, 0>>]_vars

\* A call has returned with SNIa mass transfer off, an event count
\* recorded and metals released by another channel.
C24_DisabledSNIaCounted ==
  \E t \in Threads :
    /\ thr[t].pc = "done"
    /\ input.stars.SNIa_mass_transfer = 0
    /\ sparts[t].num_snia > 0
    /\ sparts[t].metal_mass_released > 0
    /\ SNIaFields(sparts[t]) = <<0, 0, 0>>

TableReturned == probe.fn = "dying_mass_table" /\ probe.out # <<>>

\* The log-age of the probe, and entry i of the r-th (1, 2) of the two rows
\* the metallicity brackets.
TableLogAge == probe.out[2]

BracketRow(r, i) ==
  probe.lifetimes.dyingtime[probe.out[1].metal.index + r - 1][i]

\* The time bracket of the r-th row, and the mass it gives.
BracketOf(r) == IF r = 1 THEN probe.out[1].t1 ELSE probe.out[1].t2

RowMass(r) == interpol_1d_mass(BracketOf(r).index, BracketOf(r).d)

\* C25: in the tabulated dying_mass, for each of the two bracketing
\* metallicity rows, a log-age at or below the row's minimum log-time (the
\* entry at the highest mass index) selects the terminal bracket n_mass - 2
\* with weight 1, the largest table mass; a log-age at or above the row's
\* maximum (the entry at mass index 0) selects the first bracket with
\* weight 0, the smallest table mass; the two row masses are blended
\* linearly with d_metal.
C25_ClampsSelectEndMasses ==
  TableReturned =>
    LET n == probe.lifetimes.n_mass
    IN  /\ \A r \in 1 .. 2 :
             /\ TableLogAge >= BracketRow(r, 0) =>
                  /\ BracketOf(r) = [index |-> 0, d |-> 0]
                  /\ RowMass(r) = lifetimes_mass(0)
             /\ (TableLogAge <= BracketRow(r, n - 1)
                 /\ BracketRow(r, n - 1) < BracketRow(r, 0)) =>
                  /\ BracketOf(r) = [index |-> n - 2, d |-> ONE]
                  /\ RowMass(r) = lifetimes_mass(n - 1)
        /\ probe.out[1].mass
             = Mul(RowMass(1), ONE - probe.out[1].metal.d)
               + Mul(RowMass(2), probe.out[1].metal.d)

\* One row is clamped at its last entry, the other at its first, and the
\* metallicity lies between the two rows.
C25_BothClampsBlended ==
  /\ TableReturned
  /\ TableLogAge <= BracketRow(1, probe.lifetimes.n_mass - 1)
  /\ BracketRow(1, probe.lifetimes.n_mass - 1) < BracketRow(1, 0)
  /\ TableLogAge >= BracketRow(2, 0)
  /\ probe.out[1].metal.d > 0 /\ probe.out[1].metal.d < ONE
  /\ probe.out[1].mass > lifetimes_mass(0)
  /\ probe.out[1].mass < lifetimes_mass(probe.lifetimes.n_mass - 1)

\* Neither clamp applies to the r-th row: its bracket is left to the scan.
LeftToScan(r) ==
  /\ TableLogAge < BracketRow(r, 0)
  /\ TableLogAge > BracketRow(r, probe.lifetimes.n_mass - 1)

\* C30: in the tabulated dying_mass, for every lifetime table with n_mass
\* >= 2 and n_z >= 2, monotone or not, and every positive age and
\* metallicity, the backward scan ends with both time indices in
\* [0, n_mass - 2] and both weights in [0, 1] with a non-zero denominator,
\* and reads no dyingtime or mass entry at index -1 or at n_mass or beyond.
C30_ScanStaysInTable ==
  TableReturned =>
    /\ ~probe.out[1].oob
    /\ \A r \in 1 .. 2 :
         /\ BracketOf(r).index >= 0
         /\ BracketOf(r).index <= probe.lifetimes.n_mass - 2
         /\ BracketOf(r).d >= 0 /\ BracketOf(r).d <= ONE
         /\ LeftToScan(r) =>
              BracketRow(r, BracketOf(r).index + 1)
                # BracketRow(r, BracketOf(r).index)

\* The scan has set the bracket of a row that rises with the mass index
\* somewhere, while the other row was clamped.
C30_ScannedUnsortedRow ==
  /\ TableReturned
  /\ LeftToScan(1) /\ ~LeftToScan(2)
  /\ \E i \in 0 .. probe.lifetimes.n_mass - 2 :
       BracketRow(1, i) < BracketRow(1, i + 1)

====
